---- MODULE Spec2Model ----
(***************************************************************************)
(* Model of the cbox microVM orchestrator: the Server facade of            *)
(* pkg/server/server.go (StartVM, createVM, vm.boot, vm.destroy,           *)
(* destroyVM, DestroyAllVMs, ListAllVMs) running as concurrent request     *)
(* goroutines over the Registry (Server.vms), the IP and CID allocators,   *)
(* the TAP factory and the per-VM VMM processes.                           *)
(* The REST handlers of cmd/restserver/main.go and the Session Manager of  *)
(* pkg/cmdserver/cmdserver.go (callback sessions, RouteCallback,           *)
(* sendCallback) are modelled on top, served one request at a time.        *)
(*                                                                         *)
(* Every goroutine is a record th[p]; its field pc is the position in the  *)
(* handler, one label per call that touches shared state or that can fail. *)
(* The VMM, the host utilities and the TAP factory are the environment:    *)
(* it injects at most MaxFaults transient faults, each failing one call;   *)
(* otherwise the outcome of a call is decided by the environment's state   *)
(* (a VMM call fails when no VMM process listens on the socket).           *)
(***************************************************************************)
EXTENDS Integers, Sequences, FiniteSets, TLC

\* ------------------------------------------------------------------ bounds
\* number of vm instances (vm structs, createVM calls) that exist at a time
MaxInst == 4
\* number of transient faults the environment injects
MaxFaults == 2
\* host numbers of the bridge subnet: 1 is the bridge, 2..MaxHost are guests
MaxHost == 3
\* number of vsock CIDs of the allocator's range that the model uses
NumCIDs == 2
\* number of requests the concurrent specification serves
MaxReqs == 3
\* number of callback sessions that exist at a time
MaxSess == 3
\* the readiness poll's timeout and the longest GET, in ticks
cmdServerReadyTimeout == 2
vmmReadyTimeout == 2
MaxGet == 1
\* the largest host has 2^MaxHostExp GiB of memory (and a half)
MaxHostExp == 7
\* the largest CIDR an IP allocator is made for has MaxCidr host addresses
MaxCidr == 5
\* the PREROUTING chain has up to MaxRules rules; up to MaxCalls calls are
\* made on the host's network
MaxRules == 3
MaxCalls == 2
\* server.go
minGuestMemoryMB == 1024
maxGuestMemoryMB == 32768
defaultGuestMemPercentage == 50

\* ------------------------------------------------------- program constants
cidAllocatorLow == 3
BridgeHost == 1

Names == {"a", "b"}
ProcSeq == <<"p1", "p2">>
Procs == {ProcSeq[k] : k \in DOMAIN ProcSeq}
InstIds == 1..MaxInst
NoVM == 0

SessIds == 1..MaxSess
\* callback URLs of the subscribers; "" is no callbackUrl
Urls == {"u1", "u2"}

UsableHosts == (1..MaxHost) \ {BridgeHost}
\* the same of a CIDR with k host addresses, and what a caller may pass to
\* FreeIP: these, the network address and an address outside
UsableHostsOf(k) == (1..k) \ {BridgeHost}
Addrs == 0..(MaxCidr + 1)
NoCall == [op |-> "none", arg |-> 0, res |-> "none", before |-> {}]
CIDs == cidAllocatorLow..(cidAllocatorLow + NumCIDs - 1)

\* vmStatus and its String() rendering
vmStatusCreated == "CREATED"
vmStatusRunning == "RUNNING"
vmStatusStopped == "STOPPED"

VARIABLES
    vms,          \* Server.vms: name -> vm instance (NoVM when absent)
    inst,         \* the vm structs (and createVM's locals before the struct is built)
    ipAllocated,  \* IPAllocator: allocated host numbers
    cidAllocated, \* CIDAllocator: allocated CIDs
    taps,         \* TAP devices that exist on the host (named by their instance)
    procAlive,    \* VMM processes that are running
    sock,         \* per socket path (one per VM name): the VMM process listening, or NoVM
    vmLock,       \* vm.lock of every instance: the goroutine holding it, or "free"
    faults,       \* transient faults the environment may still inject
    th,           \* the request goroutines
    nreq,         \* requests the concurrent server has accepted
    sessions,     \* SessionManager.sessions: name -> Session (NoSession when absent)
    open,         \* the Sessions created and not closed
    regLock,      \* Server.lock: the goroutine holding it for writing, those reading
    smLock,       \* SessionManager.lock: likewise
    mem,          \* the host's memory, the configured percentage and the guest
                  \* memory size computed from them
    fw            \* the host's network: the PREROUTING rules of the nat table,
                  \* the bridges, the MASQUERADE and FORWARD rules, and the
                  \* calls made on them

vars == <<vms, inst, ipAllocated, cidAllocated, taps, procAlive, sock,
          vmLock, faults, th, nreq, sessions, open, regLock, smLock, mem, fw>>

\* the state of the server and of the host
shared == <<vms, inst, ipAllocated, cidAllocated, taps, procAlive, sock,
            vmLock>>

\* the state of the Session Manager
sm == <<sessions, open, smLock>>

\* ----------------------------------------------------------------- helpers
Min(S) == CHOOSE x \in S : \A y \in S : x <= y

Reverse(s) == [i \in 1..Len(s) |-> s[Len(s) + 1 - i]]

Range(s) == {s[k] : k \in DOMAIN s}

NoInst == [name |-> "", ip |-> 0, cid |-> 0, status |-> "NONE",
           \* history: CreateVM answered 204, BootVM answered 204, a destroyVM failed,
           \* a Start of this instance that carried a callbackUrl succeeded
           created |-> FALSE, booted |-> FALSE, dfail |-> FALSE, everUrl |-> FALSE]

NoSession == [id |-> 0, url |-> ""]

\* no response of a subscriber
NoResp == [status |-> 0, body |-> "none"]

NoPre == [vms |-> [n \in Names |-> NoVM], ips |-> {}, cids |-> {}, taps |-> {}]

IdleThread ==
    [pc |-> "idle", kind |-> "none", name |-> "", url |-> "", cur |-> NoVM,
     cstack |-> <<>>, todo |-> {}, finalErr |-> {}, derr |-> "none", res |-> "none",
     \* history of the request in flight
     acq |-> 0, cran |-> <<>>, cleanErr |-> {}, rel |-> <<>>, pre |-> NoPre,
     calls |-> <<>>, warn |-> {}, snap |-> {}, replaced |-> NoSession, closed |-> {},
     sess |-> NoSession, removed |-> NoSession,
     \* the readiness poll: the time since its start, the times from which
     \* the guest answers 200 and the request's context is done, its outcome
     clock |-> 0, readyAt |-> 0, doneAt |-> 0, poll |-> "",
     \* waitForServer: what it returned, whether a ping of it returned nil
     wait |-> "", pinged |-> FALSE,
     \* the request's place in a client's Start, DestroyOne, Start of one name
     trip |-> 0,
     \* a caller of an IP allocator: the host addresses of its CIDR, how often
     \* each address is held (returned by AllocateIP and not freed since),
     \* the last call with the allocated set before it
     net |-> 0, held |-> [a \in Addrs |-> 0], last |-> NoCall,
     \* the REST request and its answer: method and well-formedness of the
     \* body, whether RouteCallback was called, the URL POSTed to, the
     \* subscriber's response, RouteCallback's result and error, and the
     \* status and body the handler answers with
     method |-> "", wellformed |-> TRUE, routed |-> FALSE, posted |-> "",
     resp |-> NoResp, result |-> "none", err |-> "none", http |-> 0,
     reply |-> "none", cmd |-> "", msg |-> <<>>,
     failed |-> {}, listed |-> {}, healthy |-> FALSE, path |-> "none"]

\* outcomes of a host utility / syscall (mkdir, spawn, tap, truncate, ...)
HostOk == IF faults > 0 THEN {TRUE, FALSE} ELSE {TRUE}

\* outcomes of a VMM API call on the socket of VM name n
\*   "204"       err == nil, status 204
\*   "2xx"       err == nil, another 2xx status
\*   "status"    err != nil, resp != nil (status >= 300)
\*   "transport" err != nil, resp == nil
VmmResults(n) ==
    IF sock[n] = NoVM THEN {"transport"}
    ELSE IF faults > 0 THEN {"204", "2xx", "status", "transport"}
    ELSE {"204"}

\* whether answer r of the VMM of n is an injected fault
VmmFault(n, r) == sock[n] # NoVM /\ r # "204"

\* the environment has used up one fault, or none
Inject(f) ==
    /\ faults' = IF f THEN faults - 1 ELSE faults
    /\ UNCHANGED <<nreq, sm>>

Set(p, r) == th' = [th EXCEPT ![p] = r]

At(p, label) == th[p].pc = label

Quiet == \A q \in Procs : th[q].pc = "idle"

\* ---------------------------------------------------- instance identities
\* instance i is in use: registered, held by a goroutine other than p, or
\* owning a TAP device or a VMM process
InUseBut(i, p) ==
    \/ \E n \in Names : vms[n] = i \/ sock[n] = i
    \/ \E q \in Procs \ {p} : th[q].cur = i
    \/ i \in taps \/ i \in procAlive

InUse(i) == InUseBut(i, "nobody")

\* the identity of the next vm instance
FreshId == Min({i \in InstIds : ~InUse(i)})

\* ------------------------------------------------------------- allocators
\* IPAllocator.AllocateIP: the lowest free guest host number, 0 when exhausted
AllocateIPFrom(hosts) ==
    IF hosts \ ipAllocated = {} THEN 0 ELSE Min(hosts \ ipAllocated)

AllocateIP == AllocateIPFrom(UsableHosts)

\* CIDAllocator.AllocateCID: the lowest free CID of the range, 0 when exhausted
AllocateCID ==
    IF CIDs \ cidAllocated = {} THEN 0 ELSE Min(CIDs \ cidAllocated)

\* IPAllocator.FreeIP / CIDAllocator.FreeCID fail with NotAllocated
FreeIPFailsNever(ip) == FALSE

FreeIPFails(ip) == ip \notin ipAllocated
FreeCIDFails(cid) == cid \notin cidAllocated

\* -------------------------------------------------------------- locks
NoLock == [w |-> "none", r |-> {}]

\* s.lock.RLock() / RUnlock() by goroutine p
RLockNot(L, p) == L

RLock(L, p) == [L EXCEPT !.r = @ \cup {p}]

RUnlockNever(L, p) == L

RUnlock(L, p) == [L EXCEPT !.r = @ \ {p}]

\* s.lock.Lock() / Unlock() by goroutine p
Lock(L, p) == [L EXCEPT !.w = p]

Unlock(L, p) == [L EXCEPT !.w = "none"]

\* a section of goroutine p under the Registry's read lock (getVMAtomic, the snapshot of
\* DestroyAllVMs, ListAllVMs): it starts when nobody writes
ReadSection(p) ==
    /\ regLock.w = "none"
    /\ regLock' = RUnlock(RLock(regLock, p), p)

\* a section of goroutine p under the Registry's write lock (createVM's insert,
\* destroyVM's delete): it starts when nobody reads or writes
WriteSection(p) ==
    /\ regLock.w = "none" /\ regLock.r = {}
    /\ regLock' = Unlock(Lock(regLock, p), p)

\* a section of goroutine p under the Session Manager's read lock that
\* keeps the lock when it ends
SmReadSectionHeld(p) ==
    /\ smLock.w = "none"
    /\ smLock' = RLock(smLock, p)

\* a section of goroutine p under the Session Manager's read lock
\* (GetSession, HasSession)
SmReadSection(p) ==
    /\ smLock.w = "none"
    /\ smLock' = RUnlock(RLock(smLock, p), p)

\* a section of goroutine p under the Session Manager's write lock
\* (RegisterHTTPCallback, RemoveSession)
SmWriteSection(p) ==
    /\ smLock.w = "none" /\ smLock.r = {}
    /\ smLock' = Unlock(Lock(smLock, p), p)

\* -------------------------------------------------------- Session Manager
\* Session.Close never closes anything
CloseNot(O, s) == O

\* Session.Close: the session's client is closed
Close(O, s) == O \ {s.id}

\* the identities no session of O and no session of another name than vmName
\* has: "<vmName>-http-<UnixNano>" is fresh, and the identity of a session
\* that is closed and forgotten stands for it
FreeSess(O, vmName) ==
    SessIds \ (O \cup {sessions[n].id : n \in Names \ {vmName}})

\* the open sessions once the session of vmName, if any, is closed
Closing(vmName) ==
    IF sessions[vmName] # NoSession THEN Close(open, sessions[vmName]) ELSE open

\* SessionManager.RegisterHTTPCallback: close the session the name has, then
\* store a new one
RegisterHTTPCallback(p, vmName, url) ==
    LET k == Min(FreeSess(Closing(vmName), vmName))
    IN /\ FreeSess(Closing(vmName), vmName) # {}
       /\ SmWriteSection(p)
       /\ sessions' = [sessions EXCEPT ![vmName] = [id |-> k, url |-> url]]
       /\ open' = Closing(vmName) \cup {k}

RemoveSessionNot(p, vmName) ==
    /\ SmWriteSection(p)
    /\ UNCHANGED <<sessions, open>>

\* SessionManager.RemoveSession: delete the entry, then close its session
RemoveSession(p, vmName) ==
    /\ SmWriteSection(p)
    /\ sessions' = [sessions EXCEPT ![vmName] = NoSession]
    /\ open' = Closing(vmName)

\* SessionManager.GetSession
GetSessionOfAny(vmName) ==
    IF \E n \in Names : sessions[n] # NoSession
    THEN sessions[CHOOSE n \in Names : sessions[n] # NoSession]
    ELSE NoSession

GetSession(vmName) == IF vmName \in Names THEN sessions[vmName] ELSE NoSession

\* ---------------------------------------------------- callback responses
\* the statuses a subscriber answers with that http.Client.Do hands over
Statuses == {101, 200, 201, 304, 404}

\* the bodies a subscriber answers with: not JSON; JSON but not an object;
\* an object whose fields are not those of CallbackResponse; an object whose
\* id is not a string; and {id, result?, error?} with error absent, null or
\* a {code, message} object
Envelopes ==
    {[form |-> "object", typed |-> TRUE, other |-> FALSE, result |-> r, error |-> e] :
        r \in {"absent", "value"}, e \in {"absent", "null", "object"}}

Bodies ==
    Envelopes \cup
    {[form |-> "text", typed |-> FALSE, other |-> FALSE,
      result |-> "absent", error |-> "absent"],
     [form |-> "array", typed |-> FALSE, other |-> FALSE,
      result |-> "absent", error |-> "absent"],
     [form |-> "object", typed |-> TRUE, other |-> TRUE,
      result |-> "absent", error |-> "absent"],
     [form |-> "object", typed |-> FALSE, other |-> FALSE,
      result |-> "value", error |-> "absent"]}

\* http.Client.Do failed: no response
Transport == [status |-> 0, body |-> "transport"]

Responses == {Transport} \cup [status : Statuses, body : Bodies]

\* json.Unmarshal(respBody, &callbackResp) returns nil: the body is a JSON
\* object whose known fields have the types of CallbackResponse
UnmarshalOk(body) == body.form = "object" /\ body.typed

\* callbackResp.Error != nil after a successful Unmarshal
ErrorSetWhenPresent(body) == body.error # "absent"

ErrorSet(body) == body.error = "object"

\* resp.StatusCode >= 400
HTTPError(status) == status >= 400

\* Session.sendCallback: POST to the session's URL, then the outcome
sendCallback(session, r) ==
    LET out == [posted |-> session.url, resp |-> r, result |-> "none", err |-> "none"]
    IN IF r = Transport THEN [out EXCEPT !.err = "transport"]
       ELSE IF HTTPError(r.status) THEN [out EXCEPT !.err = "status"]
       ELSE IF ~UnmarshalOk(r.body) THEN [out EXCEPT !.result = "raw"]
       ELSE IF ErrorSet(r.body) THEN [out EXCEPT !.err = "callbackError"]
       ELSE [out EXCEPT !.result = IF r.body.result = "absent" THEN "empty"
                                   ELSE "value"]

\* SessionManager.RouteCallback
RouteCallback(session, r) ==
    IF session = NoSession
    THEN [posted |-> "", resp |-> NoResp, result |-> "none", err |-> "noSession"]
    ELSE sendCallback(session, r)

\* json.NewEncoder(w).Encode(InternalCallbackResponse{Result: result}): the
\* result is omitted when empty, and nothing is written when it is not JSON
EncodeResult(out) ==
    IF out.result = "empty" THEN "{}"
    ELSE IF out.result = "raw" /\ out.resp.body.form = "text" THEN "nothing"
    ELSE "{result}"

\* ------------------------------------------------------------------- Init
\* --------------------------------------------------------------- strings
\* A string is a sequence of tokens: a word, a punctuation mark or a
\* number.  Contains and HasPrefix are strings.Contains and strings.HasPrefix.
Tok(word) == [s |-> word, n |-> 0]
Num(k) == [s |-> "", n |-> k]

Contains(line, substr) ==
    \E i \in 0..(Len(line) - Len(substr)) :
        SubSeq(line, i + 1, i + Len(substr)) = substr

HasPrefix(line, prefix) ==
    Len(prefix) <= Len(line) /\ SubSeq(line, 1, Len(prefix)) = prefix

\* strings.Join(octets, "."): net.IP.String() of an address, and the same of
\* its leading octets
RECURSIVE Dotted(_)
Dotted(octets) ==
    IF octets = <<>> THEN <<>>
    ELSE IF Len(octets) = 1 THEN <<Num(octets[1])>>
    ELSE <<Num(octets[1]), Tok(".")>> \o Dotted(Tail(octets))

\* ------------------------------------------------- the PREROUTING chain
\* A rule of the chain is the address its DNAT target redirects to, or
\* NoTarget for a rule of another kind.  TargetOf is the text "ip:port" of
\* the target, RuleLine the line `iptables -t nat -L PREROUTING -n
\* --line-numbers` prints for rule number k.
NoTarget == <<>>
RuleIPs == {<<10, 20, 1, 2>>, <<10, 20, 1, 6>>, <<10, 20, 2, 2>>}
Rules == RuleIPs \cup {NoTarget}

TargetOf(rule) == Dotted(rule) \o <<Tok(":"), Num(8080)>>

RuleLine(k, rule) ==
    <<Num(k), Tok(" "), Tok(IF rule = NoTarget THEN "RETURN" ELSE "DNAT"), Tok(" ")>>
      \o (IF rule = NoTarget THEN <<>> ELSE <<Tok("to:")>> \o TargetOf(rule))

\* the sequences over S of length up to k
RECURSIVE SeqsUpTo(_, _)
SeqsUpTo(S, k) ==
    IF k = 0 THEN {<<>>}
    ELSE LET shorter == SeqsUpTo(S, k - 1)
         IN shorter \cup {Append(q, x) : q \in shorter, x \in S}

\* iptables -t nat -D PREROUTING k: rule k is removed, the rules after it
\* move up; there must be a rule k
DeleteRule(rules, k) ==
    [j \in 1..(Len(rules) - 1) |-> IF j < k THEN rules[j] ELSE rules[j + 1]]

\* the rule numbers of the lines that contain "to:<ip>:", in the order of
\* the listing
RECURSIVE ruleNumbers(_, _, _)
ruleNumbers(rules, ip, k) ==
    IF k > Len(rules) THEN <<>>
    ELSE (IF Contains(RuleLine(k, rules[k]), <<Tok("to:")>> \o ip \o <<Tok(":")>>)
          THEN <<k>> ELSE <<>>) \o ruleNumbers(rules, ip, k + 1)

\* sort.Sort(sort.Reverse(sort.IntSlice(ruleNumbers))): the rule numbers,
\* which are distinct, the highest first
SortedAscending(nums) ==
    LET S == {nums[j] : j \in DOMAIN nums}
    IN [j \in 1..Len(nums) |-> CHOOSE x \in S : Cardinality({y \in S : y < x}) = j - 1]

SortedDescending(nums) ==
    LET S == {nums[j] : j \in DOMAIN nums}
    IN [j \in 1..Len(nums) |-> CHOOSE x \in S : Cardinality({y \in S : y > x}) = j - 1]

\* the loop of deletions over the rule numbers nums; the iptables command
\* for rule number failAt fails, as does one for a number beyond the chain.
\* The result: the chain, the rules deleted and the numbers that failed.
RECURSIVE DeleteLoop(_, _, _, _)
DeleteLoop(rules, nums, failAt, done) ==
    IF nums = <<>> THEN [rules |-> rules, deleted |-> done.deleted, failed |-> done.failed]
    ELSE LET k == Head(nums)
         IN IF k = failAt \/ k > Len(rules)
            THEN DeleteLoop(rules, Tail(nums), failAt,
                            [done EXCEPT !.failed = Append(@, k)])
            ELSE DeleteLoop(DeleteRule(rules, k), Tail(nums), failAt,
                            [done EXCEPT !.deleted = Append(@, rules[k])])

\* cleanupAllIPTablesRulesForIP(ip) on the chain rules
cleanupAllIPTablesRulesForIP(rules, ip, failAt) ==
    DeleteLoop(rules, SortedDescending(ruleNumbers(rules, ip, 1)), failAt,
               [deleted |-> <<>>, failed |-> <<>>])

\* ------------------------------------------------------------ getIPPrefix
\* A CIDR is an address and the number of ones of its mask.  MaskedOctet is
\* octet k of the network address net.ParseCIDR returns.
Pow2(k) == 2 ^ k
OctetBits(ones, k) ==
    IF ones >= 8 * k THEN 8 ELSE IF ones <= 8 * (k - 1) THEN 0 ELSE ones - 8 * (k - 1)
MaskedOctet(cidr, k) ==
    LET unit == Pow2(8 - OctetBits(cidr.ones, k))
    IN (cidr.ip[k] \div unit) * unit

\* getIPPrefix(cidr): the complete octets of the network address, joined by
\* dots; err when there is none
getIPPrefix(cidr) ==
    LET completeOctets == cidr.ones \div 8
        octets == [k \in 1..4 |-> MaskedOctet(cidr, k)]
    IN IF completeOctets > 0 /\ completeOctets <= 4
       THEN [prefix |-> Dotted(SubSeq(octets, 1, completeOctets)), err |-> FALSE]
       ELSE [prefix |-> <<>>, err |-> TRUE]

Subnets == {[ip |-> <<10, 20, 1, 0>>, ones |-> o] : o \in {16, 24, 30}}

\* the address lies in the network of the CIDR
InSubnet(ip, cidr) ==
    \A k \in 1..4 : MaskedOctet([ip |-> ip, ones |-> cidr.ones], k) = MaskedOctet(cidr, k)

\* ------------------------------------------------- setupBridgeAndFirewall
\* The bridges of the host: config.BridgeName, and a bridge of another
\* owner whose name ends in the same letters.  LinkLine is the line `ip link
\* show type bridge` prints for a bridge.
bridgeName == <<Tok("br0")>>
BridgeNames == {bridgeName, <<Tok("vir"), Tok("br0")>>}

LinkLine(bridge) ==
    <<Num(4), Tok(":"), Tok(" ")>> \o bridge \o <<Tok(":"), Tok(" "), Tok("<BROADCAST,MULTICAST,UP>")>>

bridgeExistsByName(links, name) == name \in links.bridges

\* bridgeExists(bridgeName): a line of the listing contains "<name>:"
bridgeExists(links, name) ==
    \E b \in links.bridges : Contains(LinkLine(b), name \o <<Tok(":")>>)

\* the commands setupBridgeAndFirewall runs before it looks for the bridge
\* (iptables-save, the backup file, the default interface, the listing of
\* the bridges), and those it runs when there is no bridge
Preliminaries == 4
Commands ==
    <<"ip l add", "ip l set up", "ip a add", "MASQUERADE", "sysctl", "sysctl",
      "FORWARD -s", "FORWARD -d">>

\* what command c does to the links and rules of the host
Run(links, name, c) ==
    IF c = "ip l add" THEN [links EXCEPT !.bridges = @ \cup {name}]
    ELSE IF c = "ip a add" THEN [links EXCEPT !.addrs = @ \cup {name}]
    ELSE IF c = "MASQUERADE" THEN [links EXCEPT !.masq = @ + 1]
    ELSE IF c \in {"FORWARD -s", "FORWARD -d"} THEN [links EXCEPT !.fwd = @ + 1]
    ELSE links

\* the commands in their order, up to the one that fails
RECURSIVE RunAll(_, _, _, _)
RunAll(links, name, k, failAt) ==
    IF k > Len(Commands) THEN [links |-> links, err |-> FALSE]
    ELSE IF Preliminaries + k = failAt THEN [links |-> links, err |-> TRUE]
    ELSE RunAll(Run(links, name, Commands[k]), name, k + 1, failAt)

\* setupBridgeAndFirewall(backupFile, bridgeName, bridgeIP, bridgeSubnet),
\* of which step failAt fails (0: none)
setupBridgeAndFirewall(links, name, failAt) ==
    IF failAt \in 1..Preliminaries THEN [links |-> links, err |-> TRUE]
    ELSE IF bridgeExists(links, name) THEN [links |-> links, err |-> FALSE]
    ELSE RunAll(links, name, 1, failAt)

\* ------------------------------------------------------ the host's network
\* the host's network with the PREROUTING chain rules, for a server whose
\* config.BridgeSubnet is subnet; no call has been made
Network(rules, subnet, bridges) ==
    [rules |-> rules, subnet |-> subnet, calls |-> <<>>,
     links |-> [bridges |-> bridges, addrs |-> {}, masq |-> 0, fwd |-> 0]]

\* the network of the server: no rule is left from an earlier run
ServerNetwork == Network(<<>>, [ip |-> <<10, 20, 1, 0>>, ones |-> 24], {})

Networks ==
    {Network(r, c, b) : r \in SeqsUpTo(Rules, MaxRules), c \in Subnets,
                        b \in SUBSET BridgeNames}

\* a call of cleanupAllIPTablesRulesForIP(ip), as recorded
ReapCall(op, ip, failAt) ==
    LET r == cleanupAllIPTablesRulesForIP(fw.rules, ip, failAt)
    IN [op |-> op, arg |-> ip, before |-> fw.rules, after |-> r.rules,
        deleted |-> r.deleted, err |-> r.failed # <<>>, fault |-> failAt # 0]

\* vm.destroy: cleanupAllIPTablesRulesForIP(v.ip.IP.String())
F_Reap ==
    /\ Len(fw.calls) < MaxCalls
    /\ \E ip \in RuleIPs, failAt \in 0..MaxRules :
         LET r == cleanupAllIPTablesRulesForIP(fw.rules, Dotted(ip), failAt)
         IN fw' = [fw EXCEPT !.rules = r.rules,
                             !.calls = Append(@, ReapCall("reap", Dotted(ip), failAt))]
    /\ UNCHANGED <<shared, faults, th, nreq, sm, regLock, mem>>

\* NewServer: getIPPrefix(config.BridgeSubnet), then
\* cleanupAllIPTablesRulesForIP(ipPrefix)
F_Startup ==
    /\ Len(fw.calls) < MaxCalls
    /\ LET p == getIPPrefix(fw.subnet) IN
       /\ ~p.err
       /\ \E failAt \in 0..MaxRules :
            LET r == cleanupAllIPTablesRulesForIP(fw.rules, p.prefix, failAt)
            IN fw' = [fw EXCEPT !.rules = r.rules,
                                !.calls = Append(@, ReapCall("startup", p.prefix, failAt))]
    /\ UNCHANGED <<shared, faults, th, nreq, sm, regLock, mem>>

\* NewServer: setupBridgeAndFirewall(ipBackupFile, config.BridgeName, ...)
F_Prepare ==
    /\ Len(fw.calls) < MaxCalls
    /\ \E failAt \in 0..(Preliminaries + Len(Commands)) :
         LET r == setupBridgeAndFirewall(fw.links, bridgeName, failAt)
         IN fw' = [fw EXCEPT
                     !.links = r.links,
                     !.calls = Append(@, [op |-> "prepare", arg |-> bridgeName,
                                          before |-> fw.links, after |-> r.links,
                                          deleted |-> <<>>, err |-> r.err,
                                          fault |-> failAt # 0])]
    /\ UNCHANGED <<shared, faults, th, nreq, sm, regLock, mem>>

\* ------------------------------------------ calculateGuestMemorySizeInMB
\* The host: whether /proc/meminfo can be read, the number on its MemTotal
\* line in KB (0: no such line, or one that does not parse), and
\* config.GuestMemPercentage; memorySizeMB and err are what the function
\* returned (err "none": not called yet).
Host(readable, totalMemoryKB, memoryPercentage) ==
    [readable |-> readable, totalMemoryKB |-> totalMemoryKB,
     memoryPercentage |-> memoryPercentage, memorySizeMB |-> 0, err |-> "none"]

\* (a * b) / 100 in int64, for 0 <= b <= 100, computed without leaving the
\* range of the model checker's integers
MulDiv100(a, b) == (a \div 100) * b + ((a % 100) * b) \div 100

\* the value and the error calculateGuestMemorySizeInMB returns on host h
calculateGuestMemorySizeInMB(h) ==
    LET memoryPercentage ==
            IF h.memoryPercentage <= 0 \/ h.memoryPercentage > 100
            THEN defaultGuestMemPercentage ELSE h.memoryPercentage
        suggestedMemoryKB == MulDiv100(h.totalMemoryKB, memoryPercentage)
    IN IF ~h.readable THEN [mb |-> minGuestMemoryMB, err |-> "nil"]
       ELSE IF h.totalMemoryKB <= 0 THEN [mb |-> 0, err |-> "undetermined"]
       ELSE IF suggestedMemoryKB < minGuestMemoryMB * 1024
       THEN [mb |-> 0, err |-> "tooSmall"]
       ELSE IF suggestedMemoryKB > maxGuestMemoryMB * 1024
       THEN [mb |-> maxGuestMemoryMB, err |-> "nil"]
       ELSE [mb |-> suggestedMemoryKB \div 1024, err |-> "nil"]

\* the hosts and the configurations the function is applied to: memory of a
\* power of two GiB, and half a GiB more; the percentages around the edges of
\* their range
HostKBs == {0} \cup {2^k * 1024 * 1024 + o : k \in 0..MaxHostExp, o \in {0, 512 * 1024}}
Percentages == (-1..1) \cup {30, 50} \cup (99..101)
Hosts ==
    {Host(r, kb, pct) : r \in BOOLEAN, kb \in HostKBs, pct \in Percentages}

\* the host of the server: 8 GiB, of which a guest gets 30%
ServerHost == Host(TRUE, 8 * 1024 * 1024, 30)

\* createVM computes the guest's memory size
CalculateMemory ==
    /\ mem.err = "none"
    /\ LET r == calculateGuestMemorySizeInMB(mem)
       IN mem' = [mem EXCEPT !.memorySizeMB = r.mb, !.err = r.err]
    /\ UNCHANGED <<shared, faults, th, nreq, sm, regLock, fw>>

InitServer ==
    /\ vms = [n \in Names |-> NoVM]
    /\ inst = [i \in InstIds |-> NoInst]
    /\ ipAllocated = {}
    /\ cidAllocated = {}
    /\ taps = {}
    /\ procAlive = {}
    /\ sock = [n \in Names |-> NoVM]
    /\ vmLock = [i \in InstIds |-> "free"]
    /\ faults = MaxFaults
    /\ th = [p \in Procs |-> IdleThread]
    /\ nreq = 0
    /\ sessions = [n \in Names |-> NoSession]
    /\ open = {}
    /\ regLock = NoLock
    /\ smLock = NoLock

Init == InitServer /\ mem = ServerHost /\ fw = ServerNetwork

\* any host, any configuration
InitMem == InitServer /\ mem \in Hosts /\ fw = ServerNetwork

\* --------------------------------------------------------- request arrival
\* sendErrorResponse that answers 500 whatever the status code
sendErrorResponse500(T, statusCode, message) ==
    [T EXCEPT !.http = 500, !.reply = "{error}", !.msg = message, !.res = "err"]

\* sendErrorResponse(w, statusCode, message)
sendErrorResponse(T, statusCode, message) ==
    [T EXCEPT !.http = statusCode, !.reply = "{error}", !.msg = message, !.res = "err"]

\* restServer.startVM once Server.StartVM is over: 400 for the empty name,
\* 500 when StartVM returned an error, 200 with the descriptor when it
\* returned one; when StartVM panicked the handler is unwound and net/http
\* closes the connection without an answer
startVM(T) ==
    LET D == [T EXCEPT !.pc = "done"]
    IN IF D.path = "invalid" THEN sendErrorResponse(D, 400, <<"Empty vm name">>)
       ELSE IF D.res = "err" THEN sendErrorResponse(D, 500, <<"Failed to start VM: ">>)
       ELSE IF D.res = "panic" THEN D
       ELSE [D EXCEPT !.http = 200, !.reply = "{vm}"]

NewRequest(k, n, entry) ==
    [IdleThread EXCEPT !.pc = entry, !.kind = k, !.name = n, !.healthy = (faults = 0)]

\* a request is served by the first goroutine slot that is free; it arrives
\* when no other is in flight (serial), or at any time while requests remain
Accept(p, serial) ==
    /\ At(p, "idle")
    /\ \A k \in DOMAIN ProcSeq :
         ProcSeq[k] = p => \A j \in 1..(k - 1) : th[ProcSeq[j]].pc # "idle"
    /\ IF serial THEN Quiet ELSE nreq < MaxReqs
    /\ nreq' = IF serial THEN nreq ELSE nreq + 1
    /\ UNCHANGED <<shared, faults>>

\* POST /v1/vms -> Server.StartVM
BeginStart(p, serial) ==
    /\ Accept(p, serial)
    /\ Cardinality({i \in InstIds : ~InUse(i)})
         > Cardinality({q \in Procs : th[q].pc = "s_entry"})
    /\ \E n \in Names \cup {""} : Set(p, NewRequest("start", n, "s_entry"))
    /\ UNCHANGED sm
    /\ UNCHANGED regLock
    /\ UNCHANGED <<mem, fw>>

\* POST /v1/vms with a callbackUrl, or with a body that does not decode,
\* served when no other request is in flight
BeginStartUrl(p) ==
    /\ Accept(p, TRUE)
    /\ Cardinality({i \in InstIds : ~InUse(i)}) > 0
    /\ \/ \E n \in Names \cup {""}, u \in Urls :
            Set(p, [NewRequest("start", n, "s_entry") EXCEPT !.url = u])
       \/ Set(p, sendErrorResponse(
                    [NewRequest("start", "", "done") EXCEPT
                        !.wellformed = FALSE, !.path = "malformed"],
                    400, <<"Invalid request format: ">>))
    /\ UNCHANGED sm
    /\ UNCHANGED regLock
    /\ UNCHANGED <<mem, fw>>

\* DELETE /v1/vms/{name}: the handler removes the callback session of the
\* name, then calls Server.DestroyVM -> destroyVM
BeginDestroy(p, serial) ==
    /\ Accept(p, serial)
    /\ \E n \in Names :
         /\ RemoveSession(p, n)
         /\ Set(p, [NewRequest("destroy", n, "x_lookup") EXCEPT
                       !.removed = sessions[n]])
    /\ UNCHANGED regLock
    /\ UNCHANGED <<mem, fw>>

\* DELETE /v1/vms -> Server.DestroyAllVMs
BeginDestroyAll(p, serial) ==
    /\ Accept(p, serial)
    /\ Set(p, NewRequest("destroyAll", "", "a_snap"))
    /\ UNCHANGED sm
    /\ UNCHANGED regLock
    /\ UNCHANGED <<mem, fw>>

\* GET /v1/vms -> Server.ListAllVMs
BeginList(p, serial) ==
    /\ Accept(p, serial)
    /\ Set(p, NewRequest("list", "", "l_list"))
    /\ UNCHANGED sm
    /\ UNCHANGED regLock
    /\ UNCHANGED <<mem, fw>>

\* POST /internal/callback -> handleInternalCallback: the 400 answer
Answer400(T) == [T EXCEPT !.http = 400, !.reply = "{error}"]

\* validation, then RouteCallback's GetSession under the read lock
HandleInternalCallback(p, serial) ==
    /\ Accept(p, serial)
    /\ \E wf \in BOOLEAN, n \in Names \cup {""}, m \in {"", "m"} :
         LET T == [NewRequest("callback", n, "done") EXCEPT
                       !.method = m, !.wellformed = wf, !.res = "err"]
         IN IF ~wf
            THEN n = "" /\ m = "" /\ Set(p, Answer400(T)) /\ UNCHANGED smLock
            ELSE IF n = "" \/ m = ""
            THEN Set(p, Answer400(T)) /\ UNCHANGED smLock
            ELSE /\ SmReadSection(p)
                 /\ IF GetSession(n) = NoSession
                    THEN LET out == RouteCallback(NoSession, NoResp)
                         IN Set(p, [T EXCEPT !.routed = TRUE, !.err = out.err,
                                             !.http = 500, !.reply = "{error}"])
                    ELSE Set(p, [T EXCEPT !.pc = "cb_send", !.routed = TRUE,
                                          !.sess = GetSession(n)])
    /\ UNCHANGED <<sessions, open>>
    /\ UNCHANGED regLock
    /\ UNCHANGED <<mem, fw>>

\* RouteCallback's sendCallback on the session found: the round trip to the
\* subscriber, outside the lock; then the handler's answer
CB_SendCurrent(p) ==
    /\ At(p, "cb_send")
    /\ \E r \in Responses :
         LET T == th[p]
             out == RouteCallback(GetSession(T.name), r)
             T1 == [T EXCEPT !.pc = "done", !.posted = out.posted,
                             !.resp = out.resp, !.result = out.result,
                             !.err = out.err]
         IN IF out.err # "none"
            THEN Set(p, [T1 EXCEPT !.http = 500, !.reply = "{error}"])
            ELSE Set(p, [T1 EXCEPT !.http = 200, !.res = "ok",
                                   !.reply = EncodeResult(out)])
    /\ UNCHANGED <<shared, faults, nreq, sm>>
    /\ UNCHANGED regLock
    /\ UNCHANGED <<mem, fw>>

CB_Send(p) ==
    /\ At(p, "cb_send")
    /\ \E r \in Responses :
         LET T == th[p]
             out == RouteCallback(T.sess, r)
             T1 == [T EXCEPT !.pc = "done", !.posted = out.posted,
                             !.resp = out.resp, !.result = out.result,
                             !.err = out.err]
         IN IF out.err # "none"
            THEN Set(p, [T1 EXCEPT !.http = 500, !.reply = "{error}"])
            ELSE Set(p, [T1 EXCEPT !.http = 200, !.res = "ok",
                                   !.reply = EncodeResult(out)])
    /\ UNCHANGED <<shared, faults, nreq, sm>>
    /\ UNCHANGED regLock
    /\ UNCHANGED <<mem, fw>>

\* the handler has returned; the goroutine ends, and the vm structs nothing
\* refers to any more are gone
\* the vm structs once goroutine p has let go of its own
Collected(p) ==
    [i \in InstIds |->
        IF ~InUseBut(i, p) THEN NoInst
        ELSE IF \E n \in th[p].failed : vms[n] = i
        THEN [inst[i] EXCEPT !.dfail = TRUE]
        ELSE inst[i]]

Return(p) ==
    /\ At(p, "done")
    /\ Set(p, IdleThread)
    /\ inst' = Collected(p)
    /\ UNCHANGED <<vms, ipAllocated, cidAllocated, taps, procAlive, sock, vmLock,
                   faults, nreq, sm>>
    /\ UNCHANGED regLock
    /\ UNCHANGED <<mem, fw>>

\* the transient faults of the environment are gone for good
Heal ==
    /\ faults > 0
    /\ faults' = 0
    /\ UNCHANGED <<shared, th, nreq, sm>>
    /\ UNCHANGED regLock
    /\ UNCHANGED <<mem, fw>>

\* ---------------------------------------------------------------- StartVM
\* StartVM entry: name validation, then the lookup that picks boot or create
S_Entry(p) ==
    /\ At(p, "s_entry")
    /\ LET T == th[p] IN
       IF T.name = ""
       THEN /\ Set(p, startVM([T EXCEPT !.res = "err", !.path = "invalid"]))
            /\ UNCHANGED shared
       ELSE IF vms[T.name] # NoVM
       THEN /\ Set(p, [T EXCEPT !.pc = "s_bootex", !.cur = vms[T.name],
                                !.path = "existing"])
            /\ UNCHANGED shared
       ELSE /\ Set(p, [T EXCEPT !.pc = "c_spawn", !.cur = FreshId, !.path = "create",
                                !.cstack = <<"sentinel">>,
                                !.pre = [vms |-> vms, ips |-> ipAllocated,
                                         cids |-> cidAllocated, taps |-> taps]])
            /\ inst' = [inst EXCEPT ![FreshId] = NoInst]
            /\ UNCHANGED <<vms, ipAllocated, cidAllocated, taps, procAlive,
                           sock, vmLock>>
    /\ UNCHANGED <<faults, nreq, sm>>
    /\ IF th[p].name = "" THEN UNCHANGED regLock ELSE ReadSection(p)
    /\ UNCHANGED <<mem, fw>>

\* ---------------------------------------------------------------- createVM
\* a step of createVM succeeded and registered its compensating action c
Acquired(T, c) == [T EXCEPT !.cstack = Append(@, c), !.acq = @ + 1]

CleanOrderFifo(stack) == stack

\* the order in which Cleanup.Clean runs the registered actions: last added first
CleanOrder(stack) == Reverse(stack)

\* the compensating actions of set S on the allocators, for instance i
CleanFreeCID(S, i) ==
    IF "freecid" \in S THEN cidAllocated \ {inst[i].cid} ELSE cidAllocated

CleanFreeIPNot(S, i) == ipAllocated

CleanFreeIP(S, i) ==
    IF "freeip" \in S THEN ipAllocated \ {inst[i].ip} ELSE ipAllocated

\* a step of createVM failed (f: by an injected fault): return nil, err. The
\* deferred cleanup.Clean() runs every registered compensating action,
\* createVM returns the error and StartVM returns it. The compensations act
\* on what this call acquired and has not published; they are taken in one step.
Failed(p, T, f) ==
    LET ran == CleanOrder(T.cstack)
        S == Range(ran)
        i == T.cur
        n == T.name
        left == IF f THEN faults - 1 ELSE faults
    IN /\ cidAllocated' = CleanFreeCID(S, i)
       /\ ipAllocated' = CleanFreeIP(S, i)
       \* DestroyTapDevice may fail: the error is logged and the TAP stays
       /\ \E ok \in IF left > 0 /\ "deltap" \in S THEN {TRUE, FALSE} ELSE {TRUE} :
            /\ taps' = IF "deltap" \in S /\ ok THEN taps \ {i} ELSE taps
            /\ faults' = IF ok THEN left ELSE left - 1
            /\ UNCHANGED <<nreq, sm>>
            /\ Set(p, startVM([T EXCEPT !.res = "err", !.cstack = <<>>,
                                !.cran = ran, !.path = "createFailed",
                                !.cleanErr = IF ok THEN {} ELSE {"deltap"}]))
       \* cmd.Process.Kill() and reapProcess (wait, else kill)
       /\ procAlive' = IF S \cap {"kill", "reap"} # {} THEN procAlive \ {i}
                       ELSE procAlive
       /\ sock' = IF S \cap {"kill", "reap"} # {} /\ sock[n] = i
                  THEN [sock EXCEPT ![n] = NoVM] ELSE sock
       /\ UNCHANGED <<vms, inst, vmLock>>

\* the step of a run of host calls that fails, "none" when all succeed
FaultAt(steps) == IF faults > 0 THEN steps \cup {"none"} ELSE {"none"}

\* os.MkdirAll(vmStateDir); os.Create(logFilePath); cmd.Start(): the VMM
\* process runs and listens on the socket path if it is free
C_Spawn(p) ==
    /\ At(p, "c_spawn")
    /\ LET T == th[p] IN
       \E f \in FaultAt({"mkdir", "log", "spawn"}) :
         IF f = "mkdir" THEN Failed(p, T, TRUE)
         ELSE IF f \in {"log", "spawn"} THEN Failed(p, Acquired(T, "rmdir"), TRUE)
         ELSE /\ Set(p, [Acquired(Acquired(T, "rmdir"), "reap") EXCEPT !.pc = "c_wait"])
              /\ procAlive' = procAlive \cup {T.cur}
              /\ sock' = [sock EXCEPT ![T.name] = IF @ = NoVM THEN T.cur ELSE @]
              /\ UNCHANGED <<vms, inst, ipAllocated, cidAllocated, taps,
                             vmLock, faults, nreq, sm>>
    /\ UNCHANGED regLock
    /\ UNCHANGED <<mem, fw>>

\* waitForServer: a ping answered before the 10 s deadline, or the deadline
C_Wait(p) ==
    /\ At(p, "c_wait")
    /\ LET T == th[p] IN
       \E r \in VmmResults(T.name) :
         IF r \in {"204", "2xx"}
         THEN /\ Set(p, [Acquired(T, "kill") EXCEPT !.pc = "c_tap"])
              /\ Inject(VmmFault(T.name, r))
              /\ UNCHANGED shared
         ELSE Failed(p, T, VmmFault(T.name, r))
    /\ UNCHANGED regLock
    /\ UNCHANGED <<mem, fw>>

\* waitForServer step by step.  Time is counted in ticks since the call:
\* the context of the wait is done vmmReadyTimeout ticks after the call, or
\* when the caller's context is done (tick doneAt), whichever comes first; a
\* ping takes up to MaxGet ticks, the sleep between two pings one tick.  The
\* VMM answers the ping from tick readyAt on.  The clock stops at WaitEnd,
\* and tick WaitNever does not come.  A ping that returns nil carries a
\* response with a BuildVersion.
WaitEnd == vmmReadyTimeout + MaxGet + 1
WaitNever == WaitEnd + MaxGet + 1

\* createVM: waitForServer(ctx, apiClient, 10*time.Second)
W_Begin(p) ==
    /\ At(p, "c_wait")
    /\ \E r \in 0..WaitNever, d \in 0..WaitNever :
         Set(p, [th[p] EXCEPT !.pc = "w_loop", !.clock = 0,
                              !.readyAt = r, !.doneAt = d])
    /\ UNCHANGED <<shared, faults, nreq, sm>>
    /\ UNCHANGED regLock
    /\ UNCHANGED <<mem, fw>>

\* ctx, cancel := context.WithTimeout(ctx, timeout): the tick from which
\* ctx.Done() is closed
WithoutTimeout(doneAt, timeout) == doneAt

WithTimeout(doneAt, timeout) == IF doneAt < timeout THEN doneAt ELSE timeout

\* one iteration of the goroutine's loop, and the receive from errCh when it
\* has sent: the select on ctx.Done(), the ping with ctx, the sleep
W_Poll(p) ==
    /\ At(p, "w_loop")
    /\ LET T == th[p]
           end == WithTimeout(T.doneAt, vmmReadyTimeout)
           Tick(t) == IF t > WaitEnd THEN WaitEnd ELSE t
       IN IF T.clock >= end
          THEN Failed(p, [T EXCEPT !.wait = IF T.doneAt = end THEN "canceled"
                                            ELSE "deadline"], FALSE)
          ELSE \E d \in 0..MaxGet :
                 IF T.clock + d >= end
                 THEN /\ Set(p, [T EXCEPT !.clock = Tick(end + 1)])
                      /\ UNCHANGED <<shared, faults, nreq, sm>>
                 ELSE IF sock[T.name] # NoVM /\ T.clock + d >= T.readyAt
                 THEN /\ Set(p, [Acquired([T EXCEPT !.clock = @ + d, !.wait = "nil",
                                                    !.pinged = TRUE], "kill")
                                    EXCEPT !.pc = "c_tap"])
                      /\ UNCHANGED <<shared, faults, nreq, sm>>
                 ELSE /\ Set(p, [T EXCEPT !.clock = Tick(@ + d + 1)])
                      /\ UNCHANGED <<shared, faults, nreq, sm>>
    /\ UNCHANGED regLock
    /\ UNCHANGED <<mem, fw>>

\* fountain.CreateTapDevice(nil)
C_Tap(p) ==
    /\ At(p, "c_tap")
    /\ LET T == th[p] IN
       \E ok \in HostOk :
         IF ok
         THEN /\ Set(p, [Acquired(T, "deltap") EXCEPT !.pc = "c_ip"])
              /\ taps' = taps \cup {T.cur}
              /\ UNCHANGED <<vms, inst, ipAllocated, cidAllocated,
                             procAlive, sock, vmLock, faults, nreq, sm>>
         ELSE Failed(p, T, TRUE)
    /\ UNCHANGED regLock
    /\ UNCHANGED <<mem, fw>>

\* ipAllocator.AllocateIP()
C_IP(p) ==
    /\ At(p, "c_ip")
    /\ LET T == th[p]
           ip == AllocateIP
       IN IF ip # 0
          THEN /\ Set(p, [Acquired(T, "freeip") EXCEPT !.pc = "c_cid"])
               /\ ipAllocated' = ipAllocated \cup {ip}
               /\ inst' = [inst EXCEPT ![T.cur].ip = ip]
               /\ UNCHANGED <<vms, cidAllocated, taps, procAlive, sock,
                              vmLock, faults, nreq, sm>>
          ELSE Failed(p, T, FALSE)
    /\ UNCHANGED regLock
    /\ UNCHANGED <<mem, fw>>

\* cidAllocator.AllocateCID()
C_CID(p) ==
    /\ At(p, "c_cid")
    /\ LET T == th[p]
           cid == AllocateCID
       IN IF cid # 0
          THEN /\ Set(p, [Acquired(T, "freecid") EXCEPT !.pc = "c_disk"])
               /\ cidAllocated' = cidAllocated \cup {cid}
               /\ inst' = [inst EXCEPT ![T.cur].cid = cid]
               /\ UNCHANGED <<vms, ipAllocated, taps, procAlive, sock,
                              vmLock, faults, nreq, sm>>
          ELSE Failed(p, T, FALSE)
    /\ UNCHANGED regLock
    /\ UNCHANGED <<mem, fw>>

\* createStatefulDisk (truncate, mkfs.ext4); calculateGuestMemorySizeInMB
C_Disk(p) ==
    /\ At(p, "c_disk")
    /\ LET T == th[p] IN
       \E f \in FaultAt({"disk", "mem"}) :
         IF f = "disk" THEN Failed(p, T, TRUE)
         ELSE IF f = "mem" THEN Failed(p, Acquired(T, "rmdisk"), TRUE)
         ELSE /\ Set(p, [Acquired(T, "rmdisk") EXCEPT !.pc = "c_create"])
              /\ UNCHANGED <<shared, faults, nreq, sm>>
    /\ UNCHANGED regLock
    /\ UNCHANGED <<mem, fw>>

CreateVMOkAnyStatus(r) == r # "transport"

\* createVM goes on after the CreateVM call: err == nil and status 204
CreateVMOk(r) == r = "204"

\* the CreateVM call
C_Create(p) ==
    /\ At(p, "c_create")
    /\ LET T == th[p] IN
       \E r \in VmmResults(T.name) :
         IF CreateVMOk(r)
         THEN /\ Set(p, [T EXCEPT !.pc = "c_register"])
              /\ Inject(VmmFault(T.name, r))
              /\ inst' = [inst EXCEPT ![T.cur].created = (r = "204")]
              /\ UNCHANGED <<vms, ipAllocated, cidAllocated, taps,
                             procAlive, sock, vmLock>>
         ELSE Failed(p, T, VmmFault(T.name, r))
    /\ UNCHANGED regLock
    /\ UNCHANGED <<mem, fw>>

\* the status the vm struct is built with
NewVMStatus == vmStatusRunning

RegisteredNot(name, i) == vms

\* s.vms[vmName] = newVM
Registered(name, i) == [vms EXCEPT ![name] = i]

\* newVM := &vm{...}; s.vms[vmName] = newVM; cleanup.Release(); return newVM
C_Register(p) ==
    /\ At(p, "c_register")
    /\ LET T == th[p] IN
       /\ inst' = [inst EXCEPT ![T.cur].name = T.name, ![T.cur].status = NewVMStatus]
       /\ vms' = Registered(T.name, T.cur)
       /\ Set(p, [T EXCEPT !.pc = "s_boot", !.cstack = <<>>])
    /\ UNCHANGED <<ipAllocated, cidAllocated, taps, procAlive, sock, vmLock,
                   faults, nreq, sm>>
    /\ WriteSection(p)
    /\ UNCHANGED <<mem, fw>>

\* -------------------------------------------------------------- vm.boot
\* vm.boot on instance i with the BootVM call answering r: the struct afterwards
boot(i, r) ==
    IF r = "204"
    THEN [inst EXCEPT ![i].status = vmStatusRunning, ![i].booted = TRUE]
    ELSE inst

\* how vm.boot ends: nil, an error, or the nil dereference of resp.Body
bootOutcome(r) ==
    IF r = "204" THEN "ok" ELSE IF r = "transport" THEN "panic" ELSE "err"

\* v.lock.Lock() succeeds when nobody holds the lock
LockFreeAlways(i) == TRUE

LockFree(i) == vmLock[i] = "free"

\* StartVM, new VM: cleanup.Add(ShutdownVM); vm.boot() takes the vm's lock
S_Boot(p) ==
    /\ At(p, "s_boot")
    /\ LockFree(th[p].cur)
    /\ vmLock' = [vmLock EXCEPT ![th[p].cur] = p]
    /\ Set(p, [th[p] EXCEPT !.pc = "s_bootvm"])
    /\ UNCHANGED <<vms, inst, ipAllocated, cidAllocated, taps, procAlive, sock,
                   faults, nreq, sm>>
    /\ UNCHANGED regLock
    /\ UNCHANGED <<mem, fw>>

\* vm.boot under the lock: the BootVM call, the status, the deferred Unlock;
\* then StartVM goes on: cleanup.Release() and the readiness poll, or the
\* error (of a new VM: after the deferred cleanup.Clean())
S_BootVM(p) ==
    /\ At(p, "s_bootvm")
    /\ LET T == th[p]
           n == inst[T.cur].name
       IN \E r \in VmmResults(n) :
            /\ inst' = boot(T.cur, r)
            /\ Inject(VmmFault(n, r))
            /\ Set(p, IF bootOutcome(r) = "ok"
                      THEN [T EXCEPT !.pc = "s_ready"]
                      ELSE IF T.path = "existing"
                      THEN startVM([T EXCEPT !.res = bootOutcome(r)])
                      ELSE [T EXCEPT !.pc = "s_clean", !.res = bootOutcome(r)])
            /\ vmLock' = [vmLock EXCEPT ![T.cur] = "free"]
    /\ UNCHANGED <<vms, ipAllocated, cidAllocated, taps, procAlive, sock>>
    /\ UNCHANGED regLock
    /\ UNCHANGED <<mem, fw>>

\* StartVM's deferred cleanup.Clean() after a failed boot: the ShutdownVM call;
\* a call without response makes resp.StatusCode a nil dereference
S_Clean(p) ==
    /\ At(p, "s_clean")
    /\ LET T == th[p]
           n == inst[T.cur].name
       IN \E r \in VmmResults(n) :
            /\ Set(p, startVM([T EXCEPT !.res = IF r = "transport" THEN "panic"
                                                  ELSE @]))
            /\ Inject(VmmFault(n, r))
    /\ UNCHANGED shared
    /\ UNCHANGED regLock
    /\ UNCHANGED <<mem, fw>>

\* StartVM, the name is registered: vm.boot() of the descriptor found takes
\* the vm's lock
S_BootExNewTap(p) ==
    /\ At(p, "s_bootex")
    /\ LockFree(th[p].cur)
    /\ vmLock' = [vmLock EXCEPT ![th[p].cur] = p]
    /\ Set(p, [th[p] EXCEPT !.pc = "s_bootvm"])
    /\ taps' = taps \ {th[p].cur}
    /\ UNCHANGED <<vms, inst, ipAllocated, cidAllocated, procAlive, sock,
                   faults, nreq, sm>>
    /\ UNCHANGED regLock
    /\ UNCHANGED <<mem, fw>>

S_BootEx(p) ==
    /\ At(p, "s_bootex")
    /\ LockFree(th[p].cur)
    /\ vmLock' = [vmLock EXCEPT ![th[p].cur] = p]
    /\ Set(p, [th[p] EXCEPT !.pc = "s_bootvm"])
    /\ UNCHANGED <<vms, inst, ipAllocated, cidAllocated, taps, procAlive, sock,
                   faults, nreq, sm>>
    /\ UNCHANGED regLock
    /\ UNCHANGED <<mem, fw>>

\* the StartVMResponse StartVM builds from its request and the vm struct
StartVMResponse(vmName, i) ==
    [vmName |-> vmName, ip |-> inst[i].ip, status |-> inst[i].status,
     tapDeviceName |-> i]

ReadyAnyUrl(p, T) ==
       /\ Set(p, startVM([T EXCEPT
                   !.res = "ok",
                   !.listed = {StartVMResponse(T.name, T.cur)},
                   !.replaced = IF T.url # "" THEN sessions[T.name] ELSE @,
                   !.closed = IF T.url # "" THEN open \ Closing(T.name) ELSE @]))
       /\ IF TRUE
          THEN /\ RegisterHTTPCallback(p, T.name, T.url)
               /\ inst' = [inst EXCEPT ![T.cur].everUrl = TRUE]
          ELSE UNCHANGED <<sm, inst>>

\* StartVM after waitForCmdServerReady, of which T.poll is the outcome: an
\* error is logged, the response is built; the handler then registers the
\* callback session when the request has a callbackUrl, and answers 200
Ready(p, T) ==
       /\ Set(p, startVM([T EXCEPT
                   !.res = "ok",
                   !.listed = {StartVMResponse(T.name, T.cur)},
                   !.replaced = IF T.url # "" THEN sessions[T.name] ELSE @,
                   !.closed = IF T.url # "" THEN open \ Closing(T.name) ELSE @]))
       /\ IF T.url # ""
          THEN /\ RegisterHTTPCallback(p, T.name, T.url)
               /\ inst' = [inst EXCEPT ![T.cur].everUrl = TRUE]
          ELSE UNCHANGED <<sm, inst>>

\* waitForCmdServerReady as one step: ready, timed out or cancelled, Start
\* succeeds
S_Ready(p) ==
    /\ At(p, "s_ready")
    /\ Ready(p, th[p])
    /\ UNCHANGED <<vms, ipAllocated, cidAllocated, taps, procAlive, sock, vmLock,
                   faults, nreq>>
    /\ UNCHANGED regLock
    /\ UNCHANGED <<mem, fw>>

\* waitForCmdServerReady step by step.  Time is counted in ticks: the poll
\* gives up cmdServerReadyTimeout ticks after its start, a GET takes up to
\* MaxGet ticks (the client's timeout), the sleep between two GETs one tick.
\* The guest answers 200 from tick readyAt on, the request's context is done
\* from tick doneAt on; the clock stops at PollEnd, and tick Never does not
\* come.
PollEnd == cmdServerReadyTimeout + MaxGet
Never == PollEnd + MaxGet + 1

\* deadline := time.Now().Add(cmdServerReadyTimeout)
P_Begin(p) ==
    /\ At(p, "s_ready")
    /\ \E r \in 0..Never, d \in 0..Never :
         Set(p, [th[p] EXCEPT !.pc = "p_loop", !.clock = 0,
                              !.readyAt = r, !.doneAt = d])
    /\ UNCHANGED <<shared, faults, nreq, sm>>
    /\ UNCHANGED regLock
    /\ UNCHANGED <<mem, fw>>

\* time.Now().Before(deadline)
BeforeAlways(clock) == TRUE

Before(clock) == clock < cmdServerReadyTimeout

\* one evaluation of the loop condition and one iteration: the deadline, the
\* context, the GET and the sleep
P_Poll(p) ==
    /\ At(p, "p_loop")
    /\ LET T == th[p] IN
       IF ~Before(T.clock)
       THEN Ready(p, [T EXCEPT !.poll = "timeout"])
       ELSE IF T.clock >= T.doneAt
       THEN Ready(p, [T EXCEPT !.poll = "canceled"])
       ELSE \E d \in 0..MaxGet :
              IF T.clock + d >= T.readyAt
              THEN Ready(p, [T EXCEPT !.poll = "nil"])
              ELSE /\ Set(p, [T EXCEPT !.clock = IF @ + d + 1 > PollEnd THEN PollEnd
                                                 ELSE @ + d + 1])
                   /\ UNCHANGED <<sm, inst>>
    /\ UNCHANGED <<vms, ipAllocated, cidAllocated, taps, procAlive, sock, vmLock,
                   faults, nreq>>
    /\ UNCHANGED regLock
    /\ UNCHANGED <<mem, fw>>

\* ------------------------------------------------------------- destroyVM
\* destroyVM returns e ("nil" or what failed): DestroyVM answers the request,
\* DestroyAllVMs joins the error into finalErr and goes on with the next name
Returned(T, e) ==
    LET T1 == [T EXCEPT !.derr = e,
                        !.failed = IF e = "nil" THEN @ ELSE @ \cup {T.name}]
    IN IF T.kind = "destroy"
       THEN [T1 EXCEPT !.pc = "done", !.res = IF e = "nil" THEN "ok" ELSE "err"]
       ELSE [T1 EXCEPT !.pc = "a_loop",
                       !.finalErr = IF e = "nil" THEN @ ELSE @ \cup {T.name}]

AfterDestroyErrGoOn(T) == [T EXCEPT !.pc = "x_tap", !.derr = "destroy"]

\* destroyVM when vm.destroy returned an error: return it
AfterDestroyErr(T) == Returned(T, "destroy")

\* what destroyVM does after vm.destroy returned nil, in order; then return nil
destroyVMOrderIPFirst == <<"x_ip", "x_tap", "x_cid", "x_unreg">>

destroyVMOrder == <<"x_tap", "x_ip", "x_cid", "x_unreg">>

\* the step of destroyVM that follows step l
After(l) ==
    LET k == CHOOSE j \in DOMAIN destroyVMOrder : destroyVMOrder[j] = l
    IN IF k = Len(destroyVMOrder) THEN "return" ELSE destroyVMOrder[k + 1]

\* destroyVM: vm := s.getVMAtomic(vmName); nil is "vm not found"
X_Lookup(p) ==
    /\ At(p, "x_lookup")
    /\ LET T == th[p] IN
       IF vms[T.name] = NoVM
       THEN Set(p, Returned(T, "notfound"))
       ELSE Set(p, [T EXCEPT !.pc = "d_shutdown", !.cur = vms[T.name]])
    /\ UNCHANGED <<shared, faults, nreq, sm>>
    /\ ReadSection(p)
    /\ UNCHANGED <<mem, fw>>

\* ------------------------------------------------------------ vm.destroy
\* history: VMM call c of vm.destroy was issued and answered r
Called(T, c, r) == [T EXCEPT !.calls = Append(@, <<c, r \in {"204", "2xx"}>>)]

VmmCallOkAnyResponse(r) == r # "transport"

\* a fatal VMM call of vm.destroy succeeded: err == nil and StatusCode < 300
VmmCallOk(r) == r \in {"204", "2xx"}

\* v.lock.Lock(), then the ShutdownVM call, whose failure is only logged
D_Shutdown(p) ==
    /\ At(p, "d_shutdown")
    /\ LET T == th[p]
           n == inst[T.cur].name
       IN /\ LockFree(T.cur)
          /\ vmLock' = [vmLock EXCEPT ![T.cur] = p]
          /\ \E r \in VmmResults(n) :
               /\ Set(p, [Called(T, "ShutdownVM", r) EXCEPT
                             !.pc = "d_delete", !.rel = Append(@, "ShutdownVM"),
                             !.warn = IF r \in {"204", "2xx"} THEN @
                                      ELSE @ \cup {"ShutdownVM"}])
               /\ Inject(VmmFault(n, r))
    /\ UNCHANGED <<vms, inst, ipAllocated, cidAllocated, taps, procAlive,
                   sock>>
    /\ UNCHANGED regLock
    /\ UNCHANGED <<mem, fw>>

\* the DeleteVM call, fatal on failure (the deferred Unlock runs)
D_Delete(p) ==
    /\ At(p, "d_delete")
    /\ LET T == th[p]
           n == inst[T.cur].name
       IN \E r \in VmmResults(n) :
            /\ Inject(VmmFault(n, r))
            /\ IF VmmCallOk(r)
               THEN /\ Set(p, [Called(T, "DeleteVM", r) EXCEPT
                                  !.pc = "d_shutvmm", !.rel = Append(@, "DeleteVM")])
                    /\ UNCHANGED vmLock
               ELSE /\ Set(p, AfterDestroyErr(Called(T, "DeleteVM", r)))
                    /\ vmLock' = [vmLock EXCEPT ![T.cur] = "free"]
    /\ UNCHANGED <<vms, inst, ipAllocated, cidAllocated, taps, procAlive,
                   sock>>
    /\ UNCHANGED regLock
    /\ UNCHANGED <<mem, fw>>

\* the ShutdownVMM call, fatal on failure; on success the VMM process that
\* listens on the socket exits
D_ShutVMM(p) ==
    /\ At(p, "d_shutvmm")
    /\ LET T == th[p]
           n == inst[T.cur].name
       IN \E r \in VmmResults(n) :
            /\ Inject(VmmFault(n, r))
            /\ IF VmmCallOk(r)
               THEN /\ Set(p, [Called(T, "ShutdownVMM", r) EXCEPT
                                  !.pc = "d_reap", !.rel = Append(@, "ShutdownVMM")])
                    /\ procAlive' = procAlive \ {sock[n]}
                    /\ sock' = [sock EXCEPT ![n] = NoVM]
                    /\ UNCHANGED vmLock
               ELSE /\ Set(p, AfterDestroyErr(Called(T, "ShutdownVMM", r)))
                    /\ vmLock' = [vmLock EXCEPT ![T.cur] = "free"]
                    /\ UNCHANGED <<procAlive, sock>>
    /\ UNCHANGED <<vms, inst, ipAllocated, cidAllocated, taps>>
    /\ UNCHANGED regLock
    /\ UNCHANGED <<mem, fw>>

\* reapProcess (wait, else kill), the iptables reap and the state-directory
\* removal, whose failures are only logged; return nil (the deferred Unlock runs)
D_Reap(p) ==
    /\ At(p, "d_reap")
    /\ LET T == th[p]
           n == inst[T.cur].name
       IN /\ \E f \in FaultAt({"reap", "iptables", "rmdir"}) :
               /\ Set(p, [T EXCEPT !.pc = destroyVMOrder[1],
                                   !.rel = Append(Append(@, "reap"), "destroy"),
                                   !.warn = IF f = "none" THEN @ ELSE @ \cup {f}])
               /\ Inject(f # "none")
          /\ procAlive' = procAlive \ {T.cur}
          /\ sock' = IF sock[n] = T.cur THEN [sock EXCEPT ![n] = NoVM] ELSE sock
          /\ vmLock' = [vmLock EXCEPT ![T.cur] = "free"]
    /\ UNCHANGED <<vms, inst, ipAllocated, cidAllocated, taps>>
    /\ UNCHANGED regLock
    /\ UNCHANGED <<mem, fw>>

\* --------------------------------------------- destroyVM, after vm.destroy
\* fountain.DestroyTapDevice(vm.tapDevice): fails when the device is gone
X_Tap(p) ==
    /\ At(p, "x_tap")
    /\ LET T == th[p] IN
       \E ok \in HostOk :
         /\ Inject(~ok)
         /\ IF ok /\ T.cur \in taps
            THEN /\ Set(p, [T EXCEPT !.pc = After("x_tap"), !.rel = Append(@, "tap")])
                 /\ taps' = taps \ {T.cur}
            ELSE /\ Set(p, Returned(T, "tap"))
                 /\ UNCHANGED taps
    /\ UNCHANGED <<vms, inst, ipAllocated, cidAllocated, procAlive, sock,
                   vmLock>>
    /\ UNCHANGED regLock
    /\ UNCHANGED <<mem, fw>>

\* ipAllocator.FreeIP(vm.ip.IP)
X_IP(p) ==
    /\ At(p, "x_ip")
    /\ LET T == th[p]
           ip == inst[T.cur].ip
       IN IF FreeIPFails(ip)
          THEN /\ Set(p, Returned(T, "ip"))
               /\ UNCHANGED ipAllocated
          ELSE /\ Set(p, [T EXCEPT !.pc = After("x_ip"), !.rel = Append(@, "ip")])
               /\ ipAllocated' = ipAllocated \ {ip}
    /\ UNCHANGED <<vms, inst, cidAllocated, taps, procAlive, sock, vmLock,
                   faults, nreq, sm>>
    /\ UNCHANGED regLock
    /\ UNCHANGED <<mem, fw>>

\* cidAllocator.FreeCID(vm.cid), whose failure is only logged
X_CIDKept(p) ==
    /\ At(p, "x_cid")
    /\ Set(p, [th[p] EXCEPT !.pc = After("x_cid")])
    /\ UNCHANGED <<vms, inst, ipAllocated, cidAllocated, taps, procAlive, sock,
                   vmLock, faults, nreq, sm>>
    /\ UNCHANGED regLock
    /\ UNCHANGED <<mem, fw>>

X_CID(p) ==
    /\ At(p, "x_cid")
    /\ LET T == th[p]
           cid == inst[T.cur].cid
       IN /\ Set(p, [T EXCEPT !.pc = After("x_cid"),
                              !.rel = IF FreeCIDFails(cid) THEN @ ELSE Append(@, "cid")])
          /\ cidAllocated' = cidAllocated \ {cid}
    /\ UNCHANGED <<vms, inst, ipAllocated, taps, procAlive, sock, vmLock,
                   faults, nreq, sm>>
    /\ UNCHANGED regLock
    /\ UNCHANGED <<mem, fw>>

\* delete(s.vms, vmName); return nil
X_Unreg(p) ==
    /\ At(p, "x_unreg")
    /\ LET T == th[p] IN
       /\ vms' = [vms EXCEPT ![T.name] = NoVM]
       /\ Set(p, Returned([T EXCEPT !.rel = Append(@, "unreg")], "nil"))
    /\ UNCHANGED <<inst, ipAllocated, cidAllocated, taps, procAlive, sock,
                   vmLock, faults, nreq, sm>>
    /\ WriteSection(p)
    /\ UNCHANGED <<mem, fw>>

\* --------------------------------------------------------- DestroyAllVMs
\* the names of s.vms, copied under the read lock
A_Snap(p) ==
    /\ At(p, "a_snap")
    /\ LET names == {n \in Names : vms[n] # NoVM} IN
       Set(p, [th[p] EXCEPT !.pc = "a_loop", !.todo = names, !.snap = names])
    /\ UNCHANGED <<shared, faults, nreq, sm>>
    /\ ReadSection(p)
    /\ UNCHANGED <<mem, fw>>

LoopDoneOnError(T) == T.todo = {} \/ T.finalErr # {}

\* the range loop over vmNames is over
LoopDone(T) == T.todo = {}

\* for _, vmName := range vmNames { destroyVM }; then the joined error decides
A_Loop(p) ==
    /\ At(p, "a_loop")
    /\ LET T == th[p] IN
       IF LoopDone(T)
       THEN Set(p, [T EXCEPT !.pc = "done",
                             !.res = IF T.finalErr = {} THEN "ok" ELSE "err"])
       ELSE \E n \in T.todo :
              Set(p, [T EXCEPT !.pc = "x_lookup", !.name = n, !.todo = @ \ {n},
                               !.cur = NoVM, !.derr = "none", !.rel = <<>>,
                               !.calls = <<>>, !.warn = {}])
    /\ UNCHANGED <<shared, faults, nreq, sm>>
    /\ UNCHANGED regLock
    /\ UNCHANGED <<mem, fw>>

\* ------------------------------------------------------------ ListAllVMs
\* the entries ListAllVMs renders from s.vms under the read lock
ListAllVMs ==
    {[vmName |-> inst[vms[n]].name, ip |-> inst[vms[n]].ip,
      status |-> inst[vms[n]].status, tapDeviceName |-> vms[n]] :
        n \in {m \in Names : vms[m] # NoVM}}

L_List(p) ==
    /\ At(p, "l_list")
    /\ Set(p, [th[p] EXCEPT !.pc = "done", !.res = "ok", !.listed = ListAllVMs])
    /\ UNCHANGED <<shared, faults, nreq, sm>>
    /\ ReadSection(p)
    /\ UNCHANGED <<mem, fw>>

\* ListAllVMs step by step.  s.lock.RLock(): the read lock is taken when
\* nobody writes, and held; snap is the set of the names registered then
L_RLock(p) ==
    /\ At(p, "l_list")
    /\ regLock.w = "none"
    /\ regLock' = RLock(regLock, p)
    /\ Set(p, [th[p] EXCEPT !.pc = "l_range", !.todo = Names, !.listed = {},
                            !.snap = {n \in Names : vms[n] # NoVM}])
    /\ UNCHANGED <<shared, faults, nreq, sm>>
    /\ UNCHANGED <<mem, fw>>

\* for _, vm := range s.vms: the next entry of the map, if the map has one
\* there, is appended to the response
L_Range(p) ==
    /\ At(p, "l_range")
    /\ \E n \in th[p].todo :
         Set(p, [th[p] EXCEPT
                   !.todo = @ \ {n},
                   !.listed = IF vms[n] = NoVM THEN @
                              ELSE @ \cup {[vmName |-> inst[vms[n]].name,
                                            ip |-> inst[vms[n]].ip,
                                            status |-> inst[vms[n]].status,
                                            tapDeviceName |-> vms[n]]}])
    /\ UNCHANGED <<shared, faults, nreq, sm>>
    /\ UNCHANGED regLock
    /\ UNCHANGED <<mem, fw>>

\* return resp, nil, and the deferred s.lock.RUnlock()
L_RUnlock(p) ==
    /\ At(p, "l_range")
    /\ th[p].todo = {}
    /\ regLock' = RUnlock(regLock, p)
    /\ Set(p, [th[p] EXCEPT !.pc = "done", !.res = "ok"])
    /\ UNCHANGED <<shared, faults, nreq, sm>>
    /\ UNCHANGED <<mem, fw>>

\* ------------------------------------------------------ ListVM, VMExec
\* status.Error(codes.NotFound, "vm not found: <name>").Error()
NotFound(vmName) == <<"rpc error: code = NotFound desc = ", "vm not found: ", vmName>>

\* GET /v1/vms/{name} -> listVM -> Server.ListVM
HandleListVM(p) ==
    /\ Accept(p, TRUE)
    /\ \E n \in Names :
         LET T == NewRequest("get", n, "done")
         IN IF vms[n] = NoVM
            THEN Set(p, sendErrorResponse(T, 500,
                            <<"Failed to get VM info: ">> \o NotFound(n)))
            ELSE Set(p, [T EXCEPT !.http = 200, !.res = "ok", !.reply = "{vm}",
                                  !.listed = {e \in ListAllVMs : e.vmName = n}])
    /\ UNCHANGED sm
    /\ ReadSection(p)
    /\ UNCHANGED <<mem, fw>>

\* POST /v1/vms/{name}/exec -> vmExec -> Server.VMExec -> handleExec: the
\* guest's command server answers 200 with a decodable body, or it does not
HandleVMExec(p) ==
    /\ Accept(p, TRUE)
    /\ \E n \in Names, wf \in BOOLEAN, c \in {"", "c"}, guestOk \in BOOLEAN :
         LET T == [NewRequest("exec", n, "done") EXCEPT !.wellformed = wf, !.cmd = c]
         IN IF ~wf
            THEN /\ c = "" /\ guestOk
                 /\ Set(p, sendErrorResponse(T, 400, <<"Invalid request format: ">>))
                 /\ UNCHANGED regLock
            ELSE IF c = ""
            THEN /\ guestOk
                 /\ Set(p, sendErrorResponse(T, 400, <<"Command cannot be empty">>))
                 /\ UNCHANGED regLock
            ELSE /\ ReadSection(p)
                 /\ IF vms[n] = NoVM
                    THEN /\ guestOk
                         /\ Set(p, sendErrorResponse(T, 500,
                                        <<"Failed to execute command: ">> \o NotFound(n)))
                    ELSE IF ~guestOk
                    THEN Set(p, sendErrorResponse(T, 500,
                                    <<"Failed to execute command: ", "guest">>))
                    ELSE Set(p, [T EXCEPT !.http = 200, !.res = "ok",
                                          !.reply = "{output}"])
    /\ UNCHANGED sm
    /\ UNCHANGED <<mem, fw>>

\* ------------------------------------------- callers of the IP allocator
\* ipallocator.NewIPAllocator(config.BridgeSubnet), for a subnet of k host
\* addresses
I_New(p) ==
    /\ Accept(p, TRUE)
    /\ ipAllocated = {}
    /\ \E k \in 2..MaxCidr : Set(p, [NewRequest("ipcaller", "", "i_call") EXCEPT !.net = k])
    /\ UNCHANGED <<sm, regLock, mem, fw>>

\* AllocateIP()
I_Allocate(p) ==
    /\ At(p, "i_call")
    /\ LET T == th[p]
           ip == AllocateIPFrom(UsableHostsOf(T.net))
           call == [op |-> "allocate", arg |-> ip, before |-> ipAllocated,
                    res |-> IF ip # 0 THEN "nil" ELSE "Exhausted"]
       IN IF ip # 0
          THEN /\ ipAllocated' = ipAllocated \cup {ip}
               /\ Set(p, [T EXCEPT !.last = call,
                                   !.held[ip] = IF @ < 2 THEN @ + 1 ELSE @])
          ELSE /\ UNCHANGED ipAllocated
               /\ Set(p, [T EXCEPT !.last = call])
    /\ UNCHANGED <<vms, inst, cidAllocated, taps, procAlive, sock, vmLock,
                   faults, nreq, sm, regLock, mem, fw>>

\* FreeIP(a), for any address a
I_Free(p) ==
    /\ At(p, "i_call")
    /\ \E a \in Addrs :
         LET T == th[p]
             call == [op |-> "free", arg |-> a, before |-> ipAllocated,
                      res |-> IF FreeIPFails(a) THEN "NotAllocated" ELSE "nil"]
         IN IF FreeIPFails(a)
            THEN /\ UNCHANGED ipAllocated
                 /\ Set(p, [T EXCEPT !.last = call])
            ELSE /\ ipAllocated' = ipAllocated \ {a}
                 /\ Set(p, [T EXCEPT !.last = call,
                                     !.held[a] = IF @ > 0 THEN @ - 1 ELSE @])
    /\ UNCHANGED <<vms, inst, cidAllocated, taps, procAlive, sock, vmLock,
                   faults, nreq, sm, regLock, mem, fw>>

\* ------------------------------ a client: Start, DestroyOne, Start again
\* the Start of a name that had no descriptor has answered, and the client
\* sends DELETE /v1/vms/{name} for the same name; pre is still the state
\* from before the Start
T_Destroy(p) ==
    /\ At(p, "done")
    /\ th[p].kind = "start" /\ th[p].path = "create" /\ th[p].trip = 0
    /\ inst' = Collected(p)
    /\ RemoveSession(p, th[p].name)
    /\ Set(p, [NewRequest("destroy", th[p].name, "x_lookup") EXCEPT
                  !.pre = th[p].pre, !.trip = 1])
    /\ UNCHANGED <<vms, ipAllocated, cidAllocated, taps, procAlive, sock, vmLock,
                   faults, nreq>>
    /\ UNCHANGED regLock
    /\ UNCHANGED <<mem, fw>>

\* that DestroyOne has succeeded, and the client sends POST /v1/vms for the
\* same name again
T_Start(p) ==
    /\ At(p, "done")
    /\ th[p].kind = "destroy" /\ th[p].trip = 1 /\ th[p].derr = "nil"
    /\ inst' = Collected(p)
    /\ Set(p, [NewRequest("start", th[p].name, "s_entry") EXCEPT !.trip = 2])
    /\ UNCHANGED <<vms, ipAllocated, cidAllocated, taps, procAlive, sock, vmLock,
                   faults, nreq, sm>>
    /\ UNCHANGED regLock
    /\ UNCHANGED <<mem, fw>>

\* ------------------------------------- callers of the Session Manager
\* goroutine p is the first that serves no request
FirstIdle(p) ==
    /\ At(p, "idle")
    /\ \A k \in DOMAIN ProcSeq :
         ProcSeq[k] = p => \A j \in 1..(k - 1) : th[ProcSeq[j]].pc # "idle"

\* a call of RegisterHTTPCallback(vmName, url)
M_Register(p) ==
    /\ FirstIdle(p)
    /\ \E n \in Names, u \in Urls : RegisterHTTPCallback(p, n, u)
    /\ UNCHANGED <<shared, faults, th, nreq, regLock, mem, fw>>

\* a call of RemoveSession(vmName)
M_Remove(p) ==
    /\ FirstIdle(p)
    /\ \E n \in Names : RemoveSession(p, n)
    /\ UNCHANGED <<shared, faults, th, nreq, regLock, mem, fw>>

\* a call of HasSession(vmName)
M_Has(p) ==
    /\ Accept(p, FALSE)
    /\ SmReadSection(p)
    /\ \E n \in Names :
         Set(p, [NewRequest("has", n, "done") EXCEPT
                    !.res = IF sessions[n] # NoSession THEN "true" ELSE "false"])
    /\ UNCHANGED <<sessions, open, regLock, mem, fw>>

\* a call of GetSession(vmName)
M_Get(p) ==
    /\ Accept(p, FALSE)
    /\ SmReadSection(p)
    /\ \E n \in Names :
         Set(p, [NewRequest("getSession", n, "done") EXCEPT !.sess = GetSession(n)])
    /\ UNCHANGED <<sessions, open, regLock, mem, fw>>

\* ------------------------------------------------------- specifications
Work(p) ==
    \/ S_Entry(p) \/ C_Spawn(p) \/ C_Wait(p) \/ C_Tap(p) \/ C_IP(p)
    \/ C_CID(p) \/ C_Disk(p) \/ C_Create(p) \/ C_Register(p)
    \/ S_Boot(p) \/ S_BootVM(p) \/ S_Clean(p) \/ S_BootEx(p)
    \/ X_Lookup(p) \/ D_Shutdown(p) \/ D_Delete(p) \/ D_ShutVMM(p) \/ D_Reap(p)
    \/ X_Tap(p) \/ X_IP(p) \/ X_CID(p) \/ X_Unreg(p)
    \/ A_Snap(p) \/ A_Loop(p) \/ L_List(p) \/ Return(p)

Step(p) == Work(p) \/ S_Ready(p)

Begin(p, serial) ==
    \/ BeginStart(p, serial) \/ BeginDestroy(p, serial)
    \/ BeginDestroyAll(p, serial) \/ BeginList(p, serial)

\* MaxReqs requests served concurrently, one goroutine each
Next ==
    \/ \E p \in Procs : Begin(p, FALSE) \/ Step(p)
    \/ Heal

Spec == Init /\ [][Next]_vars

\* requests served one at a time: a request arrives when no other is in flight
NextSeq ==
    \/ \E p \in Procs : Begin(p, TRUE) \/ Step(p)
    \/ Heal

SpecSeq == Init /\ [][NextSeq]_vars

\* the REST server, its requests served one at a time: Start with and without
\* callbackUrl, the destroys, the list, the internal callback, the lookup of
\* one VM and the exec
NextRest ==
    \/ \E p \in Procs : Begin(p, TRUE) \/ BeginStartUrl(p) \/ Step(p)
    \/ \E p \in Procs : HandleInternalCallback(p, TRUE) \/ CB_Send(p)
    \/ \E p \in Procs : HandleListVM(p) \/ HandleVMExec(p)
    \/ Heal

SpecRest == Init /\ [][NextRest]_vars

\* the Session Manager under concurrent callers: MaxReqs internal callbacks,
\* has and get calls, and any number of register and remove calls
NextSM ==
    \/ \E p \in Procs : HandleInternalCallback(p, FALSE) \/ CB_Send(p)
    \/ \E p \in Procs : M_Register(p) \/ M_Remove(p) \/ M_Has(p) \/ M_Get(p)
    \/ \E p \in Procs : Return(p)

SpecSM == Init /\ [][NextSM]_vars

\* requests served one at a time, the readiness poll of StartVM step by step;
\* the goroutine of a poll keeps running
NextPoll ==
    \/ \E p \in Procs : Begin(p, TRUE) \/ Work(p)
    \/ \E p \in Procs : P_Begin(p) \/ P_Poll(p)
    \/ Heal

SpecPoll == Init /\ [][NextPoll]_vars /\ \A p \in Procs : WF_vars(P_Poll(p))

\* requests served one at a time, the wait for the VMM step by step; the
\* goroutine of a wait is scheduled as long as it can run
NextWait ==
    \/ \E p \in Procs : Begin(p, TRUE) \/ Work(p)
    \/ \E p \in Procs : W_Begin(p) \/ W_Poll(p)
    \/ Heal

SpecWait == Init /\ [][NextWait]_vars /\ \A p \in Procs : WF_vars(W_Poll(p))

\* Start, Destroy and ListAll requests served concurrently, ListAllVMs step
\* by step
NextList ==
    \/ \E p \in Procs : BeginStart(p, FALSE) \/ BeginDestroy(p, FALSE)
                         \/ BeginList(p, FALSE)
    \/ \E p \in Procs :
         \/ S_Entry(p) \/ C_Spawn(p) \/ C_Wait(p) \/ C_Tap(p) \/ C_IP(p)
         \/ C_CID(p) \/ C_Disk(p) \/ C_Create(p) \/ C_Register(p)
         \/ S_Boot(p) \/ S_BootVM(p) \/ S_Clean(p) \/ S_BootEx(p) \/ S_Ready(p)
    \/ \E p \in Procs :
         \/ X_Lookup(p) \/ D_Shutdown(p) \/ D_Delete(p) \/ D_ShutVMM(p)
         \/ D_Reap(p) \/ X_Tap(p) \/ X_IP(p) \/ X_CID(p) \/ X_Unreg(p)
    \/ \E p \in Procs : L_RLock(p) \/ L_Range(p) \/ L_RUnlock(p) \/ Return(p)

SpecList == Init /\ [][NextList]_vars

\* requests served one at a time, among them a client's Start, DestroyOne
\* and Start of one name, one after the other
NextTrip ==
    \/ \E p \in Procs : Begin(p, TRUE) \/ Step(p)
    \/ \E p \in Procs : T_Destroy(p) \/ T_Start(p)
    \/ Heal

SpecTrip == Init /\ [][NextTrip]_vars

\* an IP allocator for any CIDR under any sequence of calls
NextIP == \E p \in Procs : I_New(p) \/ I_Allocate(p) \/ I_Free(p)

SpecIP == Init /\ [][NextIP]_vars

\* the calls on the host's network, on any PREROUTING chain
InitNet == InitServer /\ mem = ServerHost /\ fw \in Networks

NextNet == F_Reap \/ F_Startup \/ F_Prepare

SpecNet == InitNet /\ [][NextNet]_vars

\* calculateGuestMemorySizeInMB on any host, under any configuration
NextMem == CalculateMemory

SpecMem == InitMem /\ [][NextMem]_vars

\* ------------------------------------------------------------- properties
Done(p, k) == th[p].pc = "done" /\ th[p].kind = k

\* createVM returned an error to the StartVM of goroutine p
CreateFailed(p) == Done(p, "start") /\ th[p].path = "createFailed"

\* the names the Registry holds
RegistryNames == {n \in Names : vms[n] # NoVM}

\* C1: in every reachable state, also while Start, DestroyOne and DestroyAll
\* interleave, the descriptors of the Registry have pairwise distinct IPs and
\* pairwise distinct CIDs.
C1_DistinctAddresses ==
    \A n, m \in RegistryNames :
        n # m => /\ inst[vms[n]].ip # inst[vms[m]].ip
                 /\ inst[vms[n]].cid # inst[vms[m]].cid

\* the entries of ListAll that carry name n
Entries(n) == {e \in ListAllVMs : e.vmName = n}

\* C2: with no other operation in between, after a Start of a name that
\* succeeded ListAll has exactly one entry of that name, and after a DestroyOne
\* that succeeded it has none.
C2_ListedAfterStartOnly ==
    \A p \in Procs :
        /\ (Done(p, "start") /\ th[p].res = "ok") =>
               Cardinality(Entries(th[p].name)) = 1
        /\ (Done(p, "destroy") /\ th[p].res = "ok") => Entries(th[p].name) = {}

C2_Witness ==
    \E p \in Procs : Done(p, "destroy") /\ th[p].res = "ok" /\ ListAllVMs # {}

\* what createVM of goroutine p left behind, against the state before the call
RegistryAsBefore(p) == vms = th[p].pre.vms
AllocatorsAsBefore(p) ==
    ipAllocated = th[p].pre.ips /\ cidAllocated = th[p].pre.cids
VmmGone(p) == th[p].cur \notin procAlive

\* C3 as stated: when a step of createVM fails, the Registry and the sets of
\* allocated IPs, CIDs and TAP devices are as before the call, and the VMM
\* process the call spawned is gone.
C3_RollbackComplete ==
    \A p \in Procs :
        CreateFailed(p) =>
            /\ RegistryAsBefore(p) /\ AllocatorsAsBefore(p) /\ VmmGone(p)
            /\ taps = th[p].pre.taps

\* C3 as amended: when a step of createVM fails, the Registry and the sets of
\* allocated IPs and CIDs are as before the call and the spawned VMM process is
\* gone; the set of TAP devices is as before unless the compensating
\* DestroyTapDevice failed, and then it is the set before plus the device of
\* this call.
C3_RollbackButTap ==
    \A p \in Procs :
        CreateFailed(p) =>
            /\ RegistryAsBefore(p) /\ AllocatorsAsBefore(p) /\ VmmGone(p)
            /\ taps = IF th[p].cleanErr = {} THEN th[p].pre.taps
                      ELSE th[p].pre.taps \cup {th[p].cur}

C3_Witness ==
    \E p \in Procs :
        /\ CreateFailed(p) /\ th[p].cleanErr = {}
        /\ {"freeip", "freecid", "deltap"} \subseteq Range(th[p].cran)
        /\ RegistryNames # {}

\* the compensations of createVM, the one of the last acquisition first
FullOrder == <<"rmdisk", "freecid", "freeip", "deltap", "kill", "reap", "rmdir">>

\* the compensating actions among what Clean ran (the first one registered is
\* the log line of cleanup.Make)
Compensations(ran) == SelectSeq(ran, LAMBDA c : c # "sentinel")

\* C4: when createVM fails after k acquisitions, the compensations that run are
\* those of the k acquisitions, in reverse order of acquisition; when createVM
\* succeeds none runs.
C4_ReverseOrder ==
    \A p \in Procs :
        /\ CreateFailed(p) =>
               Compensations(th[p].cran) =
                   SubSeq(FullOrder, Len(FullOrder) - th[p].acq + 1, Len(FullOrder))
        /\ (Done(p, "start") /\ th[p].path = "create") => th[p].cran = <<>>

C4_Witness == \E p \in Procs : CreateFailed(p) /\ th[p].acq = Len(FullOrder)

\* C5: when vm.destroy returns an error in a DestroyOne, the facade releases
\* nothing: the TAP device, the IP and the CID stay allocated and the
\* descriptor stays registered.
C5_NothingReleased ==
    \A p \in Procs :
        (th[p].kind = "destroy" /\ th[p].derr = "destroy") =>
            /\ th[p].cur \in taps
            /\ inst[th[p].cur].ip \in ipAllocated
            /\ inst[th[p].cur].cid \in cidAllocated
            /\ vms[th[p].name] = th[p].cur
            /\ Range(th[p].rel) \cap {"tap", "ip", "cid", "unreg"} = {}

C5_Witness == \E p \in Procs : Done(p, "destroy") /\ th[p].derr = "destroy"

\* the steps of the facade among what a destroyVM did
FacadeSteps(rel) ==
    SelectSeq(rel, LAMBDA c : c \in {"destroy", "tap", "ip", "cid", "unreg"})

\* C6: a DestroyOne that succeeds has run vm.destroy, destroyed the TAP device,
\* freed the IP, freed the CID and unregistered the descriptor, in this order.
C6_ReleaseOrder ==
    \A p \in Procs :
        (Done(p, "destroy") /\ th[p].res = "ok") =>
            FacadeSteps(th[p].rel) = <<"destroy", "tap", "ip", "cid", "unreg">>

C6_Witness ==
    \E p \in Procs :
        Done(p, "destroy") /\ th[p].res = "ok" /\ Len(th[p].rel) > 5

\* C7: after a DestroyOne that returned an error the VM is still registered,
\* and a retry made once the fault is gone succeeds.
C7_RetrySucceeds ==
    \A p \in Procs :
        (Done(p, "destroy") /\ th[p].cur # NoVM) =>
            /\ th[p].res = "err" => vms[th[p].name] = th[p].cur
            /\ (th[p].healthy /\ inst[th[p].cur].dfail) => th[p].res = "ok"

\* C8: DestroyAll attempts every VM of its snapshot, also after failures; with
\* nothing else running the Registry afterwards holds exactly the VMs whose
\* destroy failed, and DestroyAll returns an error iff one failed.
C8_DestroyAllLeavesFailed ==
    \A p \in Procs :
        Done(p, "destroyAll") =>
            /\ th[p].todo = {}
            /\ th[p].failed \subseteq th[p].snap
            /\ RegistryNames = th[p].failed
            /\ th[p].res = "err" <=> th[p].failed # {}

C8_Witness ==
    \E p \in Procs :
        /\ Done(p, "destroyAll")
        /\ th[p].failed # {}
        /\ th[p].snap \ th[p].failed # {}

\* C9 as stated: every descriptor of the Registry has had a successful BootVM
\* call.
C9_RegisteredIsBooted == \A n \in RegistryNames : inst[vms[n]].booted

\* C9 as amended: every descriptor of the Registry has had a successful CreateVM
\* call; it is registered before BootVM is called, and after a Start whose boot
\* failed it stays registered without a successful BootVM call.
C9_RegisteredIsCreated ==
    /\ \A n \in RegistryNames : inst[vms[n]].created
    /\ \A p \in Procs :
           (Done(p, "start") /\ th[p].path = "create" /\ th[p].res # "ok") =>
               /\ vms[th[p].name] = th[p].cur
               /\ ~inst[th[p].cur].booted

C9_Witness ==
    \E p \in Procs :
        /\ Done(p, "start") /\ th[p].path = "create" /\ th[p].res = "err"
        /\ vms[th[p].name] = th[p].cur

\* C10: a descriptor has status CREATED from the success of createVM until
\* vm.boot succeeds, and status RUNNING only once vm.boot has succeeded.
C10_StatusFollowsBoot ==
    \A n \in RegistryNames :
        inst[vms[n]].status =
            IF inst[vms[n]].booted THEN vmStatusRunning ELSE vmStatusCreated

\* vm.destroy of goroutine p has returned nil / has returned an error
DestroyOk(p) == "destroy" \in Range(th[p].rel)
DestroyErr(p) == th[p].derr = "destroy"

\* the calls of vm.destroy among what a destroyVM did
DestroySteps(rel) ==
    SelectSeq(rel, LAMBDA c : c \in {"ShutdownVM", "DeleteVM", "ShutdownVMM", "reap"})

\* C11: a vm.destroy that succeeds has issued ShutdownVM, DeleteVM, ShutdownVMM
\* and the process reap in this order and leaves the descriptor with status
\* STOPPED, before the descriptor is unregistered.
C11_DestroyedIsStopped ==
    \A p \in Procs :
        DestroyOk(p) =>
            /\ DestroySteps(th[p].rel) = <<"ShutdownVM", "DeleteVM", "ShutdownVMM", "reap">>
            /\ inst[th[p].cur].status = vmStatusStopped

\* VMM call c of the vm.destroy of goroutine p was answered without transport
\* error and with a status below 300
CallOk(p, c) == <<c, TRUE>> \in Range(th[p].calls)
CallFailed(p, c) == <<c, FALSE>> \in Range(th[p].calls)

\* C12: vm.destroy returns nil iff DeleteVM and ShutdownVMM both succeeded,
\* whatever became of ShutdownVM, of the process reap, of the rule reap and of
\* the state-directory removal; when DeleteVM fails, ShutdownVMM, the reaps and
\* the removal are not executed.
C12_DestroyResult ==
    \A p \in Procs :
        /\ (DestroyOk(p) \/ DestroyErr(p)) =>
               (DestroyOk(p) <=> CallOk(p, "DeleteVM") /\ CallOk(p, "ShutdownVMM"))
        /\ CallFailed(p, "DeleteVM") =>
               /\ DestroyErr(p)
               /\ Len(th[p].calls) = 2
               /\ Range(th[p].rel) \cap {"ShutdownVMM", "reap", "destroy"} = {}
               /\ th[p].warn \cap {"reap", "iptables", "rmdir"} = {}

C12_Witness ==
    \E p \in Procs :
        /\ DestroyOk(p)
        /\ "ShutdownVM" \in th[p].warn
        /\ th[p].warn \cap {"reap", "iptables", "rmdir"} # {}

\* the sessions the Session Manager holds
Held == {sessions[n] : n \in {m \in Names : sessions[m] # NoSession}}

\* the Start of goroutine p succeeded and registered its callbackUrl
RegisteredUrl(p) == Done(p, "start") /\ th[p].res = "ok" /\ th[p].url # ""

\* C13: the Session Manager holds at most one session per VM name: every
\* session that was created and is not the one its name maps to has been
\* closed, and no held session is closed.  After a register of url for a
\* name, the one session of the name has that url, and the session the
\* name had before was closed by the register.
C13_OneSessionPerName ==
    /\ open = {s.id : s \in Held}
    /\ \A n, m \in Names :
         (sessions[n] # NoSession /\ sessions[n].id = sessions[m].id) => n = m
    /\ \A p \in Procs :
         RegisteredUrl(p) =>
            /\ sessions[th[p].name].url = th[p].url
            /\ th[p].replaced # NoSession => th[p].replaced.id \in th[p].closed

\* register(v, u1) then register(v, u2): the second replaced the first
C13_Witness ==
    \E p \in Procs :
        /\ RegisteredUrl(p)
        /\ th[p].url = "u2"
        /\ th[p].replaced # NoSession
        /\ th[p].replaced.url = "u1"
        /\ sessions[th[p].name].url = "u2"

\* the internal callback of goroutine p passed validation and was routed
Routed(p) == Done(p, "callback") /\ th[p].routed

\* C14: a callback routed for a VM name that has no session fails with the
\* no-session error, and no request is sent to any subscriber URL.
C14_NoSessionNoRequest ==
    \A p \in Procs :
        (Routed(p) /\ sessions[th[p].name] = NoSession) =>
            /\ th[p].err = "noSession"
            /\ th[p].result = "none"
            /\ th[p].posted = ""
            /\ th[p].resp = NoResp

\* a callback for a name without session while another name has one
C14_Witness ==
    \E p \in Procs :
        /\ Routed(p)
        /\ sessions[th[p].name] = NoSession
        /\ \E n \in Names : sessions[n] # NoSession
        /\ th[p].err = "noSession"

\* the VM of name n is registered and no Start of it carried a callbackUrl
StartedWithoutUrl(n) == vms[n] # NoVM /\ ~inst[vms[n]].everUrl

\* C15: whatever requests came before, an internal callback naming a
\* registered VM that was started without callbackUrl is answered with
\* HTTP 500 for the no-session error and is not forwarded to a subscriber.
C15_NoUrlNoForward ==
    \A p \in Procs :
        (Routed(p) /\ StartedWithoutUrl(th[p].name)) =>
            /\ th[p].http = 500
            /\ th[p].err = "noSession"
            /\ th[p].posted = ""

\* the callback of goroutine p was answered by the subscriber with a status
Answered(p) == Routed(p) /\ th[p].resp \notin {NoResp, Transport}

\* C16: when the subscriber's status lies outside [200, 300), routing
\* returns an error; routing returns a result only on a 2xx status.
C16_ErrorOutside2xx ==
    \A p \in Procs :
        (Answered(p) /\ th[p].resp.status \notin 200..299) =>
            th[p].err # "none" /\ th[p].result = "none"

\* the callback of goroutine p was answered with a 2xx status
AnsweredOk(p) == Answered(p) /\ th[p].resp.status \in 200..299

\* the body parses as the {id, result?, error?} envelope
Parses(b) == b.form = "object" /\ b.typed

\* routing returned the raw body / failed with the callback error / returned
\* the value of result (nothing when the body has no result)
RawReturned(p) == th[p].err = "none" /\ th[p].result = "raw"
CallbackErrorReturned(p) == th[p].err = "callbackError" /\ th[p].result = "none"
ResultReturned(p) ==
    /\ th[p].err = "none"
    /\ th[p].result = IF th[p].resp.body.result = "absent" THEN "empty" ELSE "value"

\* C17: on a success status the outcome of routing depends on the body
\* only: a body that does not parse as the envelope is returned raw; a
\* parsed body with error present fails with the callback error, result or
\* not; a parsed body without error yields the value of result.
C17_OutcomeByBody ==
    \A p \in Procs :
        AnsweredOk(p) =>
            LET b == th[p].resp.body
            IN /\ ~Parses(b) => RawReturned(p)
               /\ (Parses(b) /\ b.error # "absent") => CallbackErrorReturned(p)
               /\ (Parses(b) /\ b.error = "absent") => ResultReturned(p)

\* C17 amended: as C17, where error present means an error that is not null;
\* a parsed body whose error is absent or null yields the value of result.
C17_OutcomeByBodyNonNull ==
    \A p \in Procs :
        AnsweredOk(p) =>
            LET b == th[p].resp.body
            IN /\ ~Parses(b) => RawReturned(p)
               /\ (Parses(b) /\ b.error = "object") => CallbackErrorReturned(p)
               /\ (Parses(b) /\ b.error \in {"absent", "null"}) => ResultReturned(p)

\* a 2xx answer whose body has both result and a non-null error failed
C17_Witness ==
    \E p \in Procs :
        /\ AnsweredOk(p)
        /\ Parses(th[p].resp.body)
        /\ th[p].resp.body.error = "object"
        /\ th[p].resp.body.result = "value"
        /\ CallbackErrorReturned(p)

\* the body is JSON and not of the {id, result?, error?} form: not an object,
\* an object with fields of other types, or an object with other fields only
PlainJSON(b) == b.form # "text" /\ (b.form # "object" \/ ~b.typed \/ b.other)

\* C18: a JSON body of a 2xx answer that is not of the envelope form is
\* returned whole as the raw result; it never yields an empty result.
C18_PlainBodyIsRaw ==
    \A p \in Procs :
        (AnsweredOk(p) /\ PlainJSON(th[p].resp.body)) =>
            RawReturned(p) /\ th[p].reply = "{result}"

\* the body of the callback request is malformed or lacks vmName or method
BadCallbackRequest(p) ==
    ~th[p].wellformed \/ th[p].name = "" \/ th[p].method = ""

\* C19: the internal callback endpoint answers 400, without calling the
\* Session Manager, when the body is malformed or vmName or method is empty;
\* 500 with {error} whenever routing fails; 200 with {result} exactly when
\* routing succeeds; every request gets exactly one of the three.  A body
\* {} counts as {result} with an empty result.
C19_CallbackOutcomes ==
    \A p \in Procs :
        Done(p, "callback") =>
            /\ th[p].http \in {400, 500, 200}
            /\ BadCallbackRequest(p) <=> th[p].http = 400
            /\ th[p].http = 400 => ~th[p].routed /\ th[p].reply = "{error}"
            /\ (th[p].routed /\ th[p].err # "none") <=> th[p].http = 500
            /\ th[p].http = 500 => th[p].reply = "{error}"
            /\ (th[p].routed /\ th[p].err = "none") <=> th[p].http = 200
            /\ th[p].http = 200 => th[p].reply \in {"{result}", "{}"}

\* goroutine p served a valid request naming a VM the Registry does not hold
UnknownVM(p) ==
    /\ Done(p, "get") \/ (Done(p, "exec") /\ th[p].wellformed /\ th[p].cmd # "")
    /\ vms[th[p].name] = NoVM

\* C20: a GET of a VM, or an exec with a non-empty cmd, that names a VM the
\* Registry does not hold is answered with HTTP 404 and the message
\* "vm not found: <name>"; 500 is answered only for other failures.
C20_UnknownVMIs404 ==
    \A p \in Procs :
        UnknownVM(p) =>
            /\ th[p].http = 404
            /\ th[p].msg = <<"vm not found: ", th[p].name>>

\* the Start of goroutine p passed validation and failed in createVM or vm.boot
StartFailed(p) ==
    /\ Done(p, "start")
    /\ th[p].path \in {"create", "createFailed", "existing"}
    /\ th[p].res # "ok"

\* C21: whenever Start fails in create() or boot(), whatever the reason,
\* POST /v1/vms is answered with HTTP 500 and an error body; the request
\* never ends without a response.
C21_StartFailureIs500 ==
    \A p \in Procs :
        StartFailed(p) => th[p].http = 500 /\ th[p].reply = "{error}"

\* C22: a Start request with an empty vmName is answered 400 and changes
\* nothing: the step that serves it leaves the Registry, the vm structs, the
\* allocators, the TAP devices, the VMM processes and the callback sessions
\* as they are (also when the request has a callbackUrl), and acquires nothing.
C22_EmptyNameChangesNothing ==
    [][\A p \in Procs :
          (th[p].pc = "s_entry" /\ th[p].name = "") =>
              /\ UNCHANGED <<shared, sm>>
              /\ th'[p] # th[p] =>
                    /\ th'[p].pc = "done"
                    /\ th'[p].http = 400
                    /\ th'[p].reply = "{error}"
                    /\ th'[p].acq = 0
                    /\ th'[p].cur = NoVM]_vars

\* a Start with an empty vmName and a callbackUrl was rejected
C22_Witness ==
    \E p \in Procs :
        /\ Done(p, "start")
        /\ th[p].name = ""
        /\ th[p].url # ""
        /\ th[p].path = "invalid"
        /\ th[p].http = 400
        /\ \A n \in Names : sessions[n] = NoSession

\* goroutine q is inside vm.destroy of instance i: between its first step
\* (Lock, ShutdownVM) and its last (the reap, Unlock)
InDestroy(q, i) ==
    th[q].cur = i /\ th[q].pc \in {"d_delete", "d_shutvmm", "d_reap"}

\* goroutine q is inside vm.boot of instance i: it has the lock and is about
\* to issue BootVM
InBoot(q, i) == th[q].cur = i /\ th[q].pc = "s_bootvm"

\* goroutine q waits for the lock of instance i in vm.boot or vm.destroy
Waiting(q, i) ==
    th[q].cur = i /\ th[q].pc \in {"s_boot", "s_bootex", "d_shutdown"}

\* C23: for one VM the executions of boot() and destroy() exclude each
\* other: at no time are two goroutines inside boot() or destroy() of the
\* same vm, and the one that is inside holds the vm's lock, so no BootVM is
\* issued during a destroy(), no step of a destroy() during a boot(), and no
\* two destroy() overlap.
C23_BootDestroyExclusive ==
    \A i \in InstIds :
        /\ \A q, r \in Procs :
              ((InDestroy(q, i) \/ InBoot(q, i)) /\ (InDestroy(r, i) \/ InBoot(r, i)))
                  => q = r
        /\ \A q \in Procs :
              (InDestroy(q, i) \/ InBoot(q, i)) <=> vmLock[i] = q

\* a Start of a registered name waits for the lock while a destroy() of the
\* same vm is under way
C23_Witness ==
    \E i \in InstIds, q, r \in Procs :
        /\ InDestroy(q, i)
        /\ Waiting(r, i)
        /\ th[r].pc = "s_bootex"

\* the labels at which the next step of a goroutine is a call to the VMM, to
\* the guest or to a host subprocess
CallLabels ==
    {"c_spawn", "c_wait", "c_tap", "c_disk", "c_create", "s_bootvm", "s_clean",
     "s_ready", "d_shutdown", "d_delete", "d_shutvmm", "d_reap", "x_tap"}

\* the labels at which the next step of a goroutine reads the Registry
ReadLabels == {"s_entry", "x_lookup", "a_snap", "l_list"}

\* goroutine p holds the Registry's lock, for reading or for writing
HoldsRegistry(p) == regLock.w = p \/ p \in regLock.r

\* C24: no goroutine holds the Registry's lock, for reading or for writing,
\* while one of its calls to the VMM, the guest or a host subprocess is in
\* flight; so a ListAll or a lookup that is about to read the Registry can
\* always do so, whatever calls of other requests are in flight.
C24_RegistryLockNotHeldAcrossCalls ==
    /\ \A p \in Procs : th[p].pc \in CallLabels => ~HoldsRegistry(p)
    /\ \A p \in Procs : th[p].pc \in ReadLabels => regLock.w = "none"

\* a ListAll is about to read the Registry while a VMM call of another
\* request is in flight
C24_Witness ==
    \E p, q \in Procs :
        /\ th[p].pc = "l_list"
        /\ th[q].pc \in {"d_delete", "c_create", "s_bootvm"}
        /\ regLock = NoLock

\* the route of goroutine p waits for the subscriber's answer
RoundTrip(p) == th[p].pc = "cb_send"

\* C25: while a route waits for the subscriber, its goroutine does not hold
\* the Session Manager's lock, and nobody else does: register and remove can
\* take the write lock, has and get the read lock, for any VM.
C25_SessionLockNotHeldInRoundTrip ==
    \A p \in Procs :
        RoundTrip(p) =>
            /\ smLock.w # p /\ p \notin smLock.r
            /\ smLock = NoLock

\* while a route for a VM waits for the subscriber, a register or a remove
\* for the same VM has run to completion
C25_Witness ==
    \E p \in Procs :
        /\ RoundTrip(p)
        /\ sessions[th[p].name] # th[p].sess

\* goroutine p serves a Start whose name has a descriptor in the Registry
StartOfExisting(p) ==
    \/ th[p].path = "existing"
    \/ th[p].pc = "s_entry" /\ th[p].name # "" /\ vms[th[p].name] # NoVM

\* C26: every step of a Start whose name has a descriptor leaves the Registry,
\* the allocated IPs, CIDs and TAP devices and the VMM processes as they
\* are, and the answer of a successful one carries the IP and the TAP name
\* of the descriptor found.
C26_StartOfExistingOnlyBoots ==
    [][\A p \in Procs :
         (StartOfExisting(p) /\ th'[p] # th[p]) =>
            /\ UNCHANGED <<vms, ipAllocated, cidAllocated, taps, procAlive>>
            /\ (th'[p].pc = "done" /\ th'[p].http = 200) =>
                  /\ th'[p].listed # {}
                  /\ \A v \in th'[p].listed :
                       /\ v.ip = inst[vms[th[p].name]].ip
                       /\ v.tapDeviceName = vms[th[p].name]]_vars

\* a Start of a registered name has answered 200
C26_Witness ==
    \E p \in Procs :
        /\ th[p].path = "existing"
        /\ th[p].pc = "done"
        /\ th[p].http = 200
        /\ vms[th[p].name] = th[p].cur

\* C27: a Start whose create() and boot() succeeded answers 200 whatever the
\* readiness poll returned (nil, the timeout or the context's error), and
\* every readiness poll comes to an end.
C27_StartSucceedsWhateverThePoll ==
    /\ [](\A p \in Procs :
            (th[p].pc = "done" /\ th[p].poll # "") =>
                /\ th[p].res = "ok"
                /\ th[p].http = 200
                /\ th[p].listed = {StartVMResponse(th[p].name, th[p].cur)})
    /\ \A p \in Procs : (th[p].pc = "p_loop") ~> (th[p].pc = "done")

\* a Start has answered 200 after its readiness poll ran into the timeout
C27_Witness ==
    \E p \in Procs :
        /\ th[p].pc = "done"
        /\ th[p].poll = "timeout"
        /\ th[p].clock >= cmdServerReadyTimeout
        /\ th[p].http = 200

\* C28: on a host whose memory size is known, the guest memory computed is
\* clamp(total * pct' / 100, 1 GiB, 32 GiB), where pct' is the configured
\* percentage when in (0, 100] and 50 otherwise, and the computation does not
\* fail.
C28_GuestMemoryIsClamped ==
    LET Clamp(x, lo, hi) == IF x < lo THEN lo ELSE IF x > hi THEN hi ELSE x
        pct == IF mem.memoryPercentage > 0 /\ mem.memoryPercentage <= 100
               THEN mem.memoryPercentage ELSE 50
    IN (mem.err # "none" /\ mem.readable /\ mem.totalMemoryKB > 0) =>
          /\ mem.err = "nil"
          /\ mem.memorySizeMB =
               Clamp(MulDiv100(mem.totalMemoryKB, pct),
                     1024 * 1024, 32 * 1024 * 1024) \div 1024

\* C29: when the Start of a name that had no descriptor is followed by a
\* DestroyOne of that name which succeeds, the Registry and the allocated IPs,
\* CIDs and TAP devices are what they were before the Start; and a Start of
\* the name that follows, on a host without faults, succeeds.
C29_StartDestroyRoundTrip ==
    \A p \in Procs :
        /\ (th[p].pc = "done" /\ th[p].kind = "destroy" /\ th[p].trip = 1
              /\ th[p].derr = "nil") =>
                /\ vms = th[p].pre.vms
                /\ ipAllocated = th[p].pre.ips
                /\ cidAllocated = th[p].pre.cids
                /\ taps = th[p].pre.taps
        /\ (th[p].pc = "done" /\ th[p].kind = "start" /\ th[p].trip = 2
              /\ th[p].healthy) =>
                /\ th[p].res = "ok"
                /\ th[p].http = 200
                /\ vms[th[p].name] = th[p].cur

\* the Start that follows the round trip has succeeded, while another VM
\* is registered
C29_Witness ==
    \E p \in Procs :
        /\ th[p].pc = "done" /\ th[p].kind = "start" /\ th[p].trip = 2
        /\ th[p].res = "ok"
        /\ th[p].path = "create"
        /\ \E n \in Names \ {th[p].name} : vms[n] # NoVM

\* C30: under any sequence of AllocateIP and FreeIP calls on an allocator of
\* any CIDR, no address is held twice, every address held is a host address
\* of the CIDR other than the bridge's, the allocated set is the set of the
\* addresses returned by AllocateIP and not freed since, and a FreeIP of an
\* address that is not allocated returns NotAllocated and leaves the
\* allocated set as it was.
C30_IPAllocatorInvariants ==
    \A p \in Procs :
        th[p].pc = "i_call" =>
            /\ \A a \in Addrs : th[p].held[a] <= 1
            /\ \A a \in Addrs :
                 th[p].held[a] > 0 => a \in 1..th[p].net /\ a # BridgeHost
            /\ ipAllocated = {a \in Addrs : th[p].held[a] > 0}
            /\ (th[p].last.op = "free" /\ th[p].last.arg \notin th[p].last.before) =>
                  /\ th[p].last.res = "NotAllocated"
                  /\ ipAllocated = th[p].last.before

\* an address allocated and freed is freed once more, while another address
\* is allocated
C30_Witness ==
    \E p \in Procs :
        /\ th[p].pc = "i_call"
        /\ th[p].last.op = "free"
        /\ th[p].last.res = "NotAllocated"
        /\ th[p].last.arg \in UsableHostsOf(th[p].net)
        /\ ipAllocated # {}
        /\ \E a \in ipAllocated : a > th[p].last.arg

\* no Start, DestroyOne or DestroyAll is between its arrival and its answer
NoneInFlight == \A p \in Procs : th[p].pc \in {"idle", "done"}

\* the vm instances the Registry refers to
RegistryVMs == {vms[n] : n \in RegistryNames}

\* C31: whenever no Start or Destroy request is in flight, the allocated IPs
\* and CIDs, the TAP devices and the live VMM processes are exactly those of
\* the descriptors in the Registry.
C31_QuiescentResourcesAreRegistered ==
    NoneInFlight =>
        /\ ipAllocated = {inst[i].ip : i \in RegistryVMs}
        /\ cidAllocated = {inst[i].cid : i \in RegistryVMs}
        /\ taps = RegistryVMs
        /\ procAlive = RegistryVMs

\* the vm instances other than i that were made under name n and still run
OthersOf(n, i) == {j \in procAlive \ {i} : inst[j].name = n}

\* C32: every step of a DestroyOne acts on the vm instance the request looked
\* up: the VMM process it ends and the descriptor it unregisters are that
\* instance's, the IP and the CID of another running instance of the name stay
\* allocated, and it frees no IP that another DestroyOne of the same instance
\* has freed.
C32_DestroyOnlyWhatWasLookedUp ==
    [][\A p \in Procs :
         (th[p].kind = "destroy" /\ th[p].cur # NoVM /\ th'[p] # th[p]) =>
            LET i == th[p].cur
                n == th[p].name
            IN /\ procAlive \ procAlive' \subseteq {i}
               /\ \A m \in Names : (vms[m] # NoVM /\ vms'[m] = NoVM) => vms[m] = i
               /\ \A j \in OthersOf(n, i) :
                    /\ inst[j].ip \in ipAllocated => inst[j].ip \in ipAllocated'
                    /\ inst[j].cid \in cidAllocated => inst[j].cid \in cidAllocated'
               /\ ipAllocated' # ipAllocated =>
                    \A q \in Procs \ {p} :
                        ~(th[q].kind = "destroy" /\ th[q].cur = i
                            /\ "ip" \in Range(th[q].rel))]_vars

\* the redirect target of the rule begins with "p:"
TargetBeginsWith(rule, p) ==
    rule # NoTarget /\ HasPrefix(TargetOf(rule), p \o <<Tok(":")>>)

\* C33: a call of cleanupAllIPTablesRulesForIP(p) whose deletions all succeed
\* leaves the chain without the rules whose target begins with "p:", the
\* other rules in their order, and every rule it deleted was such a rule; a
\* second call with the same p right after it deletes no rule.
C33_ReapRemovesExactlyTheMatching ==
    \A i \in DOMAIN fw.calls :
        LET c == fw.calls[i] IN
        (c.op \in {"reap", "startup"} /\ ~c.err) =>
            /\ c.after = SelectSeq(c.before, LAMBDA r : ~TargetBeginsWith(r, c.arg))
            /\ \A k \in DOMAIN c.deleted : TargetBeginsWith(c.deleted[k], c.arg)
            /\ (i + 1 \in DOMAIN fw.calls /\ fw.calls[i + 1].arg = c.arg) =>
                  fw.calls[i + 1].deleted = <<>>

\* two rules with the target were deleted around a rule that stayed, and
\* the second call with the same address found nothing
C33_Witness ==
    /\ Len(fw.calls) = 2
    /\ fw.calls[1].op = "reap" /\ ~fw.calls[1].err
    /\ Len(fw.calls[1].deleted) = 2
    /\ Len(fw.calls[1].before) = 3
    /\ ~TargetBeginsWith(fw.calls[1].before[2], fw.calls[1].arg)
    /\ fw.calls[2].arg = fw.calls[1].arg
    /\ fw.calls[2].deleted = <<>>

\* C34: after the reap of NewServer, made with the prefix getIPPrefix derives
\* from the bridge subnet and with every deletion succeeding, the PREROUTING
\* chain has no rule whose target is an address of that subnet.
C34_StartupReapClearsSubnet ==
    \A i \in DOMAIN fw.calls :
        LET c == fw.calls[i] IN
        (c.op = "startup" /\ ~c.err) =>
            \A k \in DOMAIN c.after :
                c.after[k] # NoTarget => ~InSubnet(c.after[k], fw.subnet)

\* C35: a setupBridgeAndFirewall none of whose commands fails, called when
\* the named bridge exists, succeeds and leaves the bridges, the addresses
\* and the MASQUERADE and FORWARD rules as they are; and two such calls, one
\* after the other, on a host that had neither the bridge nor the rules,
\* leave the bridge, one MASQUERADE rule and two FORWARD rules.
C35_PrepareTwiceIsOnce ==
    \A i \in DOMAIN fw.calls :
        LET c == fw.calls[i] IN
        (c.op = "prepare" /\ ~c.fault) =>
            /\ bridgeExistsByName(c.before, c.arg) => (~c.err /\ c.after = c.before)
            /\ (/\ i + 1 \in DOMAIN fw.calls
                /\ fw.calls[i + 1].op = "prepare" /\ ~fw.calls[i + 1].fault
                /\ ~bridgeExistsByName(c.before, c.arg)
                /\ c.before.masq = 0 /\ c.before.fwd = 0) =>
                  LET d == fw.calls[i + 1] IN
                  /\ ~c.err /\ ~d.err
                  /\ bridgeExistsByName(d.after, c.arg)
                  /\ d.after.masq = 1 /\ d.after.fwd = 2

\* C36: waitForServer has returned nil exactly when a ping of it returned
\* nil, which was before its deadline and before the caller's context was
\* done; it has returned the context's error otherwise, not before the
\* deadline or the cancellation (whichever the error names) and at most one
\* sleep after the earlier of them; and every wait comes to an end.
C36_ReadinessWaitTerminates ==
    /\ [](\A p \in Procs :
            LET T == th[p] IN
            T.wait # "" =>
                /\ T.wait \in {"nil", "canceled", "deadline"}
                /\ (T.wait = "nil") <=> T.pinged
                /\ T.pinged =>
                      /\ T.clock < vmmReadyTimeout /\ T.clock < T.doneAt
                      /\ T.clock >= T.readyAt
                /\ T.wait = "canceled" => T.clock >= T.doneAt
                /\ T.wait = "deadline" => T.clock >= vmmReadyTimeout
                /\ T.wait # "nil" =>
                      /\ T.res = "err"
                      /\ \/ T.clock <= T.doneAt + 1
                         \/ T.clock <= vmmReadyTimeout + 1)
    /\ \A p \in Procs : (th[p].pc = "w_loop") ~> (th[p].pc # "w_loop")

\* a wait has returned the deadline's error, the VMM never having answered
C36_Witness ==
    \E p \in Procs :
        /\ th[p].wait = "deadline"
        /\ th[p].clock >= vmmReadyTimeout
        /\ th[p].readyAt > th[p].clock
        /\ th[p].res = "err"

\* C37: the round trip of a route posts to the URL of the session the route
\* looked up, whatever the session of the name is by then, its outcome is
\* that of its own response, and it changes no other route and no session;
\* and a route that starts takes the session its name has at that moment, or
\* fails with no-session without posting when the name has none.
C37_RoutesAreIndependent ==
    [][\A p \in Procs :
         /\ (th[p].pc = "cb_send" /\ th'[p].pc # "cb_send") =>
               LET T == th[p]
                   out == sendCallback(T.sess, th'[p].resp)
               IN /\ th'[p].pc = "done"
                  /\ th'[p].posted = T.sess.url
                  /\ th'[p].resp \in Responses
                  /\ th'[p].result = out.result /\ th'[p].err = out.err
                  /\ \A q \in Procs \ {p} : th'[q] = th[q]
                  /\ sessions' = sessions
         /\ (th[p].pc = "idle" /\ th'[p].kind = "callback" /\ th'[p].routed) =>
               IF sessions[th'[p].name] = NoSession
               THEN /\ th'[p].pc = "done" /\ th'[p].err = "noSession"
                    /\ th'[p].posted = "" /\ th'[p].http = 500
               ELSE /\ th'[p].pc = "cb_send"
                    /\ th'[p].sess = sessions[th'[p].name]]_vars

\* two routes of one name have completed, each against the URL it looked
\* up, with different outcomes, one of them after its session was replaced
\* by a session of another URL
C37_Witness ==
    \E p, q \in Procs :
        /\ p # q
        /\ th[p].pc = "done" /\ th[q].pc = "done"
        /\ th[p].kind = "callback" /\ th[q].kind = "callback"
        /\ th[p].name = th[q].name
        /\ th[p].posted # "" /\ th[q].posted # ""
        /\ th[p].posted = th[p].sess.url /\ th[q].posted = th[q].sess.url
        /\ th[p].res = "ok" /\ th[q].res = "err"
        /\ sessions[th[p].name] # NoSession
        /\ sessions[th[p].name].url # th[p].posted

\* C38: the handler of DELETE /v1/vms/{name} removes the session of the name
\* in its first step, before DestroyVM has looked the name up or touched a
\* resource; and when it has answered, the name has no session, whether
\* DestroyVM returned nil, failed or did not find the name.
C38_SessionRemovedBeforeDestroy ==
    /\ [](\A p \in Procs :
            (th[p].kind = "destroy" /\ th[p].pc = "done") =>
                /\ sessions[th[p].name] = NoSession
                /\ th[p].res \in {"ok", "err"}
                /\ th[p].removed # NoSession => th[p].removed.id \notin open)
    /\ [][\A p \in Procs :
            (th[p].pc = "idle" /\ th'[p].kind = "destroy") =>
                /\ sessions'[th'[p].name] = NoSession
                /\ th'[p].pc = "x_lookup"
                /\ shared' = shared]_vars

\* a DELETE of a name that had a session has answered 500, the VM is still
\* registered, and the session is gone
C38_Witness ==
    \E p \in Procs :
        /\ th[p].kind = "destroy" /\ th[p].pc = "done"
        /\ th[p].removed # NoSession
        /\ th[p].res = "err" /\ th[p].derr = "destroy"
        /\ vms[th[p].name] # NoVM
        /\ sessions[th[p].name] = NoSession

\* C39: a step that gives a name a session, or another session than it had,
\* is the last step of a POST /v1/vms for that name that carried a
\* callbackUrl, whose StartVM returned nil and which answers 200, and the
\* session has the URL of the request; and the step in which a POST /v1/vms
\* fails (it does not answer 200) leaves every session and the open sessions
\* as they are.
C39_SessionOnlyByStartedVM ==
    [][/\ \A n \in Names :
            (sessions'[n] # sessions[n] /\ sessions'[n] # NoSession) =>
                \E p \in Procs :
                    /\ th[p].kind = "start" /\ th[p].pc # "done"
                    /\ th'[p].pc = "done" /\ th'[p].res = "ok" /\ th'[p].http = 200
                    /\ th[p].name = n /\ th[p].url # ""
                    /\ sessions'[n].url = th[p].url
                    /\ vms[n] # NoVM
                    /\ \A m \in Names \ {n} : sessions'[m] = sessions[m]
       /\ \A p \in Procs :
            (th'[p].kind = "start" /\ th[p].pc # "done" /\ th'[p].pc = "done"
                /\ th'[p].res # "ok") =>
                /\ th'[p].http # 200
                /\ sessions' = sessions /\ open' = open]_vars

\* a POST /v1/vms with a callbackUrl for a name that has a session of
\* another URL has failed, and the name still has that session
C39_Witness ==
    \E p \in Procs :
        /\ th[p].kind = "start" /\ th[p].pc = "done"
        /\ th[p].res = "err" /\ th[p].http = 500
        /\ th[p].url # "" /\ th[p].name # ""
        /\ sessions[th[p].name] # NoSession
        /\ sessions[th[p].name].url # th[p].url

\* C40: from the moment ListAllVMs has taken the read lock until it
\* returns, the Registry holds the names it held at that moment, whatever
\* Start and Destroy requests are in flight; and the names ListAllVMs
\* returns are those names, each with the vm registered under it.
C40_ListIsASnapshot ==
    \A p \in Procs :
        /\ th[p].pc = "l_range" =>
              /\ RegistryNames = th[p].snap
              /\ p \in regLock.r
              /\ {v.vmName : v \in th[p].listed} = th[p].snap \ th[p].todo
        /\ (th[p].kind = "list" /\ th[p].pc = "done") =>
              /\ {v.vmName : v \in th[p].listed} = th[p].snap
              /\ Cardinality(th[p].listed) = Cardinality(th[p].snap)

\* a ListAll has returned one name while a Start that has spawned its VMM
\* and a Destroy are in flight, and the Registry is no longer what it was
C40_Witness ==
    \E p, q \in Procs :
        /\ th[p].kind = "list" /\ th[p].pc = "done"
        /\ th[p].snap # {}
        /\ {v.vmName : v \in th[p].listed} = th[p].snap
        /\ th[q].kind \in {"start", "destroy"} /\ th[q].pc \notin {"idle", "done"}
        /\ RegistryNames # th[p].snap
====
